---------------------------- MODULE Spec2Model ----------------------------
(***************************************************************************)
(* Protected memory: the pmalloc pool allocator of mm/prmem.c and the      *)
(* write-rare engine of include/linux/prmem.h.                             *)
(*                                                                         *)
(* Addresses are byte addresses.  The address space is, from low to high:  *)
(*   the null page, ordinary read-only kernel data (const and              *)
(*   __ro_after_init objects), the __wr_after_init section, and the        *)
(*   vmalloc range.  Sizes are scaled down (a page is 2^PAGE_SHIFT bytes,  *)
(*   a pointer PTR_SIZE bytes); the arithmetic is that of the code.        *)
(***************************************************************************)
EXTENDS Integers, Sequences, FiniteSets, TLC

\* ------------------------------------------------------------- bounds
PAGE_SHIFT == 1
RodataPages == 2
StaticPages == 2
VmallocPages == 10
NPools == 2
MaxLen == 3
MaxWrites == 1
MaxNodes == 3
MaxRetries == 2
MaxOps == 3
INT_BITS == 8
NThreads == 2

\* ------------------------------------------------- platform constants
PAGE_SIZE == 2 ^ PAGE_SHIFT
PTR_SIZE == PAGE_SIZE
ARCH_KMALLOC_MINALIGN == PAGE_SIZE
NULL == 0

RODATA_START == PAGE_SIZE
RODATA_END == RODATA_START + RodataPages * PAGE_SIZE
__start_wr_after_init == RODATA_END
__end_wr_after_init == __start_wr_after_init + StaticPages * PAGE_SIZE
VMALLOC_START == __end_wr_after_init
VMALLOC_END == VMALLOC_START + VmallocPages * PAGE_SIZE

Addr == 0 .. VMALLOC_END
PoolIds == 1 .. NPools
Threads == 1 .. NThreads
Idle == [pc |-> "idle"]
NoPool == [absent |-> TRUE]

Min(a, b) == IF a < b THEN a ELSE b

\* round_down(x, y) for y a power of two: x & ~(y - 1)
round_down(x, y) == x - (x % y)
\* unsigned long and size_t arithmetic
LONG_MAX == 2 ^ (2 * INT_BITS - 1) - 1
ULONG_MAX == 2 * LONG_MAX + 1
ulong(x) == x % (ULONG_MAX + 1)

\* PAGE_ALIGN(x): ((x) + PAGE_SIZE - 1) & PAGE_MASK, the sum taken in the
\* width of x
PAGE_ALIGN(x) == (ulong(x + PAGE_SIZE - 1) \div PAGE_SIZE) * PAGE_SIZE

\* ------------------------------------------------------------- state
VARIABLES
    areas,   \* vmalloc areas (struct vmap_area + vm_struct), keyed by va_start
    pools,   \* struct pmalloc_pool objects, or NoPool for a free slot
    mem,     \* memory contents, one value per byte address
    allocs,  \* history: the bytes pmalloc has handed out from live pools
    hist,    \* history: per pool, how it was created and what was called on it
    nwr,     \* number of write-rare calls made so far
    last,    \* the most recent call and what it returned
    thr,     \* per thread: the call it is executing, its position and locals
    mutex,   \* per pool: the thread that holds pool->mutex, or 0
    arch     \* the processor: write-rare backend, interrupt flag, active mm

vars == <<areas, pools, mem, allocs, hist, nwr, last, thr, mutex, arch>>

\* The processor before the write-rare backend is brought up: interrupts
\* enabled, init_mm active, no secondary address space.
ArchBoot(platform) ==
    [platform |-> platform, inited |-> FALSE, wr_ready |-> FALSE,
     wr_mm |-> FALSE, mapped |-> {}, halted |-> FALSE,
     irqs |-> TRUE, flags |-> TRUE, active_mm |-> "init_mm",
     prev |-> "init_mm"]

\* vm_struct flags (include/linux/vmalloc.h, and the VM_PMALLOC* tags)
VM_PMALLOC_MASK == {"VM_PMALLOC", "VM_PMALLOC_WR", "VM_PMALLOC_PROTECTED"}
VM_PMALLOC_WR_MASK == {"VM_PMALLOC", "VM_PMALLOC_WR"}
VM_PMALLOC_PROTECTED_MASK == {"VM_PMALLOC", "VM_PMALLOC_PROTECTED"}

\* pool modes
PMALLOC_MASK == {"PMALLOC_WR", "PMALLOC_AUTO", "PMALLOC_START"}

\* ------------------------------------------------- the platform: vmalloc
is_vmalloc_addr(ptr) == VMALLOC_START <= ptr /\ ptr < VMALLOC_END

\* The bytes of an area that are backed by pages (the guard page is not).
AreaEnd(ar, a) == a + ar[a].nr_pages * PAGE_SIZE
AreaBytes(ar, a) == a .. (AreaEnd(ar, a) - 1)

\* Address range an area reserves, guard page included (vm->size).
Reserved(ar, a) == a .. (a + ar[a].size - 1)

\* vmalloc_to_page(ptr)->area / find_vmap_area(ptr): the area whose mapped
\* pages hold ptr, or NULL (an unmapped address, such as a guard page).
AreaOf(ar, ptr) ==
    IF \E a \in DOMAIN ar : ptr \in AreaBytes(ar, a)
    THEN CHOOSE a \in DOMAIN ar : ptr \in AreaBytes(ar, a)
    ELSE NULL

\* Where vmalloc(size) places an area of nr pages plus its guard page: the
\* lowest free range of the vmalloc space, or NULL when there is none.
VmallocFit(ar, nr) ==
    LET starts == { VMALLOC_START + i * PAGE_SIZE : i \in 0 .. (VmallocPages - 1) }
        free(a) == /\ a + (nr + 1) * PAGE_SIZE <= VMALLOC_END
                   /\ \A b \in DOMAIN ar :
                        Reserved(ar, b) \cap (a .. (a + (nr + 1) * PAGE_SIZE - 1)) = {}
        fits == { a \in starts : free(a) }
    IN  IF fits = {} THEN NULL
        ELSE CHOOSE a \in fits : \A b \in fits : a <= b

\* vmalloc(size): NULL for a size of 0 or one that PAGE_ALIGN() wraps to 0,
\* when the platform is out of memory (ok = FALSE) or out of address space.
vmalloc(ar, size, ok) ==
    IF size = 0 \/ PAGE_ALIGN(size) = 0 \/ ~ok THEN NULL
    ELSE VmallocFit(ar, PAGE_ALIGN(size) \div PAGE_SIZE)

NewArea(size) ==
    [nr_pages |-> PAGE_ALIGN(size) \div PAGE_SIZE,
     size     |-> PAGE_ALIGN(size) + PAGE_SIZE,
     flags    |-> {"VM_ALLOC"},
     ro       |-> FALSE,
     pool     |-> 0]

\* ------------------------------------------------------ mm/prmem.c helpers
\* protect_area() that also tags the area write rare
protect_area_grants_wr(ar, a) ==
    [ar EXCEPT ![a].ro = TRUE,
               ![a].flags = @ \cup VM_PMALLOC_MASK]

\* protect_area() that flips the protection of an area already protected
protect_area_toggle(ar, a) ==
    IF "VM_PMALLOC_PROTECTED" \in ar[a].flags
    THEN [ar EXCEPT ![a].ro = FALSE,
                    ![a].flags = @ \ {"VM_PMALLOC_PROTECTED"}]
    ELSE [ar EXCEPT ![a].ro = TRUE,
                    ![a].flags = @ \cup VM_PMALLOC_PROTECTED_MASK]

protect_area(ar, a) ==
    [ar EXCEPT ![a].ro = TRUE,
               ![a].flags = @ \cup VM_PMALLOC_PROTECTED_MASK]

empty(pool) == pool.area = <<>>

\* unwritable() that lets any write-rare pool allocate from a protected area
unwritable_any_wr_pool(ar, pool) ==
    LET flags == ar[Head(pool.area)].flags IN
    /\ "VM_PMALLOC_PROTECTED" \in flags
    /\ ~ ("VM_PMALLOC_WR" \in flags)

unwritable(ar, pool) ==
    LET flags == ar[Head(pool.area)].flags IN
    /\ "VM_PMALLOC_PROTECTED" \in flags
    /\ ~ ("VM_PMALLOC_WR" \in flags /\ "PMALLOC_START" \in pool.mode)

exhausted(pool, size) ==
    LET space_before == round_down(pool.offset, pool.align)
        space_after == pool.offset - space_before
    IN  space_after < size /\ space_before < size

space_needed(ar, pool, size) ==
    empty(pool) \/ unwritable(ar, pool) \/ exhausted(pool, size)

\* protecting only the current area instead of walking the chain
protect_all_head_only(ar, chain) ==
    IF chain = <<>> THEN ar ELSE protect_area(ar, Head(chain))

\* protect_area() applied to every area of the chain, head first
RECURSIVE protect_all(_, _)
protect_all(ar, chain) ==
    IF chain = <<>> THEN ar
    ELSE protect_all(protect_area(ar, Head(chain)), Tail(chain))

\* the size grow() asks vmalloc for
GrowSize(pool, min_size) == IF min_size > pool.refill THEN min_size ELSE pool.refill

\* grow() that, in an auto-protect pool, protects the new area instead of
\* the previously current one
grow_protects_new(ar, pool, p, min_size, addr) ==
    LET size == GrowSize(pool, min_size)
        tag_mask == {"VM_PMALLOC"} \cup
                    (IF "PMALLOC_WR" \in pool.mode THEN {"VM_PMALLOC_WR"} ELSE {})
        new == [NewArea(size) EXCEPT !.flags = @ \cup (tag_mask \cap VM_PMALLOC_MASK),
                                     !.pool = p]
        ar1 == [x \in DOMAIN ar \cup {addr} |-> IF x = addr THEN new ELSE ar[x]]
        ar2 == IF "PMALLOC_START" \in pool.mode THEN protect_area(ar1, addr) ELSE ar1
        ar3 == IF "PMALLOC_AUTO" \in pool.mode /\ ~empty(pool)
               THEN protect_area(ar2, addr) ELSE ar2
    IN  [areas |-> ar3,
         pool  |-> [pool EXCEPT !.offset = new.nr_pages * PAGE_SIZE,
                                !.area = <<addr>> \o @]]

\* grow() that leaves the new area of a start-protected pool writable
grow_start_unprotected(ar, pool, p, min_size, addr) ==
    LET size == GrowSize(pool, min_size)
        tag_mask == {"VM_PMALLOC"} \cup
                    (IF "PMALLOC_WR" \in pool.mode THEN {"VM_PMALLOC_WR"} ELSE {})
        new == [NewArea(size) EXCEPT !.flags = @ \cup (tag_mask \cap VM_PMALLOC_MASK),
                                     !.pool = p]
        ar1 == [x \in DOMAIN ar \cup {addr} |-> IF x = addr THEN new ELSE ar[x]]
        ar3 == IF "PMALLOC_AUTO" \in pool.mode /\ ~empty(pool)
               THEN protect_area(ar1, Head(pool.area)) ELSE ar1
    IN  [areas |-> ar3,
         pool  |-> [pool EXCEPT !.offset = new.nr_pages * PAGE_SIZE,
                                !.area = <<addr>> \o @]]

\* grow(pool, min_size) once vmalloc has returned addr # NULL
grow(ar, pool, p, min_size, addr) ==
    LET size == GrowSize(pool, min_size)
        tag_mask == {"VM_PMALLOC"} \cup
                    (IF "PMALLOC_WR" \in pool.mode THEN {"VM_PMALLOC_WR"} ELSE {})
        new == [NewArea(size) EXCEPT !.flags = @ \cup (tag_mask \cap VM_PMALLOC_MASK),
                                     !.pool = p]
        ar1 == [x \in DOMAIN ar \cup {addr} |-> IF x = addr THEN new ELSE ar[x]]
        ar2 == IF "PMALLOC_START" \in pool.mode THEN protect_area(ar1, addr) ELSE ar1
        ar3 == IF "PMALLOC_AUTO" \in pool.mode /\ ~empty(pool)
               THEN protect_area(ar2, Head(pool.area)) ELSE ar2
    IN  [areas |-> ar3,
         pool  |-> [pool EXCEPT !.offset = new.nr_pages * PAGE_SIZE,
                                !.area = <<addr>> \o @]]

\* ---------------------------------------------------------- initial state
\* The system is observed from a state in which one ordinary vmalloc area
\* (not a pool chunk) and one pool of another subsystem already exist: pool
\* OldPool was created in PMALLOC_WR mode, has handed out its one-page chunk
\* in full and has been protected.  The read-only data and the
\* __wr_after_init section hold initialised objects (a fixed non-zero
\* pattern), everything else is zero.
OtherArea == VMALLOC_START
OldChunk == VMALLOC_START + 2 * PAGE_SIZE
OldPool == NPools
OnePool == {1}

InitMem == [a \in Addr |-> IF RODATA_START <= a /\ a < __end_wr_after_init
                           THEN 1 + (a % 3) ELSE 0]

NoHist == [absent |-> TRUE]
NoCall == [op |-> "none"]

InitAreas ==
    [a \in {OtherArea, OldChunk} |->
        IF a = OtherArea THEN NewArea(PAGE_SIZE)
        ELSE [NewArea(PAGE_SIZE) EXCEPT
                !.flags = @ \cup VM_PMALLOC_MASK, !.ro = TRUE, !.pool = OldPool]]

InitPools ==
    [p \in PoolIds |->
        IF p = OldPool
        THEN [area |-> <<OldChunk>>, align |-> 1, refill |-> PAGE_SIZE,
              offset |-> 0, mode |-> {"PMALLOC_WR"}]
        ELSE NoPool]

InitHist ==
    [p \in PoolIds |->
        IF p = OldPool
        THEN [created_mode |-> {"PMALLOC_WR"}, explicit |-> TRUE,
              made_ro |-> FALSE, snap |-> {OldChunk}]
        ELSE NoHist]

Init ==
    /\ areas = InitAreas
    /\ pools = InitPools
    /\ mem = InitMem
    /\ allocs = OldChunk .. (OldChunk + PAGE_SIZE - 1)
    /\ hist = InitHist
    /\ nwr = 0
    /\ last = NoCall
    /\ thr = [t \in Threads |-> Idle]
    /\ mutex = [p \in PoolIds |-> 0]
    /\ arch = ArchBoot("generic")

Live(p) == pools[p] # NoPool

\* ------------------------------------------------------------ pool actions
\* pmalloc_init_custom_pool(): the pool object as initialised
init_custom_pool(refill, align_order, mode) ==
    LET m1 == mode \cap PMALLOC_MASK
        m2 == IF "PMALLOC_START" \in m1 THEN m1 \cup {"PMALLOC_WR"} ELSE m1
    IN  [area   |-> <<>>,
         align  |-> IF align_order < 0 THEN ARCH_KMALLOC_MINALIGN ELSE 2 ^ align_order,
         refill |-> IF refill # 0 THEN PAGE_ALIGN(refill) ELSE PAGE_SIZE,
         offset |-> 0,
         mode   |-> m2 \cap PMALLOC_MASK]

\* pmalloc_create_custom_pool(refill, align_order, mode); slots: the pool
\* objects kmalloc can provide; it fails when none of them is free.
pmalloc_create_custom_pool(slots, refill, align_order, mode) ==
    LET free == { p \in slots : ~Live(p) } IN
    IF free = {}
    THEN /\ last' = [op |-> "create", ret |-> NULL]
         /\ UNCHANGED <<arch, areas, pools, mem, allocs, hist, nwr, thr, mutex>>
    ELSE LET p == CHOOSE q \in free : \A r \in free : q <= r
             pool == init_custom_pool(refill, align_order, mode)
         IN  /\ pools' = [pools EXCEPT ![p] = pool]
             /\ hist' = [hist EXCEPT ![p] = [created_mode |-> pool.mode,
                                             explicit |-> FALSE,
                                             made_ro |-> FALSE,
                                             snap |-> {}]]
             /\ last' = [op |-> "create", ret |-> p]
             /\ UNCHANGED <<arch, areas, mem, allocs, nwr, thr, mutex>>

\* The body of pmalloc(pool, size), called directly or by one of its inline
\* wrappers; vm_ok: whether the platform allocator has memory; call: the
\* outermost call, as recorded in last; zero: the caller is pzalloc(), which
\* clears the size bytes it got
pmalloc_body(p, size, vm_ok, call, zero) ==
    /\ Live(p)
    /\ LET pool == pools[p]
           need == space_needed(areas, pool, size)
           addr == IF need THEN vmalloc(areas, GrowSize(pool, size), vm_ok) ELSE NULL
       IN  IF need /\ addr = NULL
           THEN /\ last' = call @@ [pool |-> p, size |-> size, ret |-> NULL]
                /\ UNCHANGED <<arch, areas, pools, mem, allocs, hist, nwr, thr, mutex>>
           ELSE LET g == IF need THEN grow(areas, pool, p, size, addr)
                         ELSE [areas |-> areas, pool |-> pool]
                    offset == round_down(g.pool.offset - size, g.pool.align)
                    retval == Head(g.pool.area) + offset
                IN  /\ areas' = g.areas
                    /\ pools' = [pools EXCEPT ![p] = [g.pool EXCEPT !.offset = offset]]
                    /\ allocs' = allocs \cup (retval .. (retval + size - 1))
                    /\ mem' = IF zero
                              THEN [a \in DOMAIN mem |->
                                      IF retval <= a /\ a < retval + size
                                      THEN 0 ELSE mem[a]]
                              ELSE mem
                    /\ last' = call @@ [pool |-> p, size |-> size, ret |-> retval]
                    /\ UNCHANGED <<arch, hist, nwr, thr, mutex>>

\* pmalloc(pool, size)
pmalloc(p, size, vm_ok) == pmalloc_body(p, size, vm_ok, [op |-> "pmalloc"], FALSE)

\* pmalloc_protect_pool(pool)
pmalloc_protect_pool(p) ==
    /\ Live(p)
    /\ areas' = protect_all(areas, pools[p].area)
    /\ hist' = [hist EXCEPT ![p].explicit = TRUE,
                            ![p].snap = IF "PMALLOC_START" \in pools[p].mode
                                        THEN @
                                        ELSE { pools[p].area[i] : i \in DOMAIN pools[p].area }]
    /\ last' = [op |-> "protect", pool |-> p]
    /\ UNCHANGED <<arch, pools, mem, allocs, nwr, thr, mutex>>

\* pmalloc_make_pool_ro(pool)
pmalloc_make_pool_ro(p) ==
    /\ Live(p)
    /\ pools' = [pools EXCEPT ![p].mode = @ \ {"PMALLOC_WR", "PMALLOC_START"}]
    /\ areas' = protect_all(areas, pools[p].area)
    /\ hist' = [hist EXCEPT ![p].explicit = TRUE, ![p].made_ro = TRUE]
    /\ last' = [op |-> "make_pool_ro", pool |-> p]
    /\ UNCHANGED <<arch, mem, allocs, nwr, thr, mutex>>

\* pmalloc_destroy_pool(pool): every area is made writable, untagged and
\* handed to vfree, then the pool object is freed.
pmalloc_destroy_pool(p) ==
    /\ Live(p)
    /\ LET chain == { pools[p].area[i] : i \in DOMAIN pools[p].area } IN
       areas' = [a \in DOMAIN areas \ chain |-> areas[a]]
    /\ pools' = [pools EXCEPT ![p] = NoPool]
    /\ hist' = [hist EXCEPT ![p] = NoHist]
    /\ allocs' = { x \in allocs : AreaOf(areas, x) = NULL \/ areas[AreaOf(areas, x)].pool # p }
    /\ last' = [op |-> "destroy", pool |-> p]
    /\ UNCHANGED <<arch, mem, nwr, thr, mutex>>

\* ------------------------------------------- include/linux/prmem.h: write rare
\* (int)x: the value of a size_t converted to an int of INT_BITS bits
IntCast(x) ==
    LET y == x % (2 ^ INT_BITS)
    IN  IF y >= 2 ^ (INT_BITS - 1) THEN y - 2 ^ INT_BITS ELSE y

__is_wr_after_init(ptr, size) ==
    LET start == __start_wr_after_init
        end == __end_wr_after_init
        low == ptr
        high == ptr + size
    IN  start <= low /\ low < high /\ high <= end

\* __is_wr_pool() that accepts any pmalloc area, write rare or not
__is_wr_pool_any_pmalloc(ar, ptr, size) ==
    IF ~is_vmalloc_addr(ptr) THEN FALSE
    ELSE LET a == AreaOf(ar, ptr) IN
         IF a = NULL THEN FALSE
         ELSE ar[a].size >= size /\ "VM_PMALLOC" \in ar[a].flags

__is_wr_pool(ar, ptr, size) ==
    IF ~is_vmalloc_addr(ptr) THEN FALSE
    ELSE LET a == AreaOf(ar, ptr) IN
         IF a = NULL THEN FALSE
         ELSE ar[a].size >= size /\ VM_PMALLOC_WR_MASK \subseteq ar[a].flags

\* The n bytes at address src.
Bytes(m, src, n) == [i \in 1 .. n |-> m[src + i - 1]]

\* memory m with the bytes b stored at d, d+1, ...
Store(m, d, b) ==
    [a \in DOMAIN m |-> IF d <= a /\ a < d + Len(b) THEN b[a - d + 1] ELSE m[a]]

\* the loop with the source pointer not advanced between pages
RECURSIVE wr_loop_src_not_advanced(_, _, _, _, _, _, _)
wr_loop_src_not_advanced(ar, m, d, s, n_bytes, is_virt, fail_at) ==
    IF n_bytes = 0 THEN [mem |-> m, ret |-> TRUE, vmap_failed |-> FALSE]
    ELSE LET page_ok == is_virt \/ AreaOf(ar, d) # NULL
             offset == d % PAGE_SIZE
             offset_complement == PAGE_SIZE - offset
             size == Min(IntCast(n_bytes), IntCast(offset_complement))
             base_ok == page_ok /\ fail_at # 1
         IN  IF ~base_ok THEN [mem |-> m, ret |-> FALSE, vmap_failed |-> TRUE]
             ELSE wr_loop_src_not_advanced(ar, Store(m, d, SubSeq(s, 1, size)),
                          d + size, s, n_bytes - size, is_virt,
                          IF fail_at = 0 THEN 0 ELSE fail_at - 1)

\* The page-by-page loop of wr_memcpy() and wr_memset().  s holds the bytes
\* still to be transferred; fail_at is the iteration whose vmap() fails for
\* lack of memory (0: none).  vmalloc_to_page() of an address that no page
\* backs is NULL, and vmap() of a NULL page fails.
RECURSIVE wr_loop(_, _, _, _, _, _, _)
wr_loop(ar, m, d, s, n_bytes, is_virt, fail_at) ==
    IF n_bytes = 0 THEN [mem |-> m, ret |-> TRUE, vmap_failed |-> FALSE]
    ELSE LET page_ok == is_virt \/ AreaOf(ar, d) # NULL
             offset == d % PAGE_SIZE
             offset_complement == PAGE_SIZE - offset
             size == Min(IntCast(n_bytes), IntCast(offset_complement))
             base_ok == page_ok /\ fail_at # 1
         IN  IF ~base_ok THEN [mem |-> m, ret |-> FALSE, vmap_failed |-> TRUE]
             ELSE wr_loop(ar, Store(m, d, SubSeq(s, 1, size)), d + size,
                          SubSeq(s, size + 1, Len(s)), n_bytes - size, is_virt,
                          IF fail_at = 0 THEN 0 ELSE fail_at - 1)

\* wr_memcpy(dst, src, n_bytes), src given by the bytes it holds
wr_memcpy(ar, m, dst, src, n_bytes, fail_at) ==
    LET is_virt == __is_wr_after_init(dst, n_bytes) IN
    IF ~(is_virt \/ __is_wr_pool(ar, dst, n_bytes))
    THEN [mem |-> m, ret |-> FALSE, vmap_failed |-> FALSE, checked |-> FALSE]
    ELSE LET r == wr_loop(ar, m, dst, src, n_bytes, is_virt, fail_at)
         IN  [mem |-> r.mem, ret |-> r.ret, vmap_failed |-> r.vmap_failed,
              checked |-> TRUE]

\* wr_memset(dst, c, n_bytes): memset stores (unsigned char)c
wr_memset(ar, m, dst, c, n_bytes, fail_at) ==
    LET is_virt == __is_wr_after_init(dst, n_bytes) IN
    IF ~(is_virt \/ __is_wr_pool(ar, dst, n_bytes))
    THEN [mem |-> m, ret |-> FALSE, vmap_failed |-> FALSE, checked |-> FALSE]
    ELSE LET r == wr_loop(ar, m, dst, [i \in 1 .. n_bytes |-> c % 256],
                          n_bytes, is_virt, fail_at)
         IN  [mem |-> r.mem, ret |-> r.ret, vmap_failed |-> r.vmap_failed,
              checked |-> TRUE]

\* The object representation of a pointer: PTR_SIZE bytes, little endian.
PtrBytes(v) == [i \in 1 .. PTR_SIZE |-> (v \div (256 ^ (i - 1))) % 256]

\* wr_ptr(dst, val)
wr_ptr(ar, m, dst, val, fail_at) ==
    wr_memcpy(ar, m, dst, PtrBytes(val), PTR_SIZE, fail_at)

\* __wr_rcu_ptr(dst_p_p, src_p): one pointer store into the remapped page;
\* returns src_p, or NULL when refused or when vmap() fails.
__wr_rcu_ptr(ar, m, dst_p_p, src_p, fail_at) ==
    LET is_virt == __is_wr_after_init(dst_p_p, PTR_SIZE) IN
    IF ~(is_virt \/ __is_wr_pool(ar, dst_p_p, PTR_SIZE))
    THEN [mem |-> m, ret |-> NULL, vmap_failed |-> FALSE, checked |-> FALSE]
    ELSE IF ~(is_virt \/ AreaOf(ar, dst_p_p) # NULL) \/ fail_at = 1
         THEN [mem |-> m, ret |-> NULL, vmap_failed |-> TRUE, checked |-> TRUE]
         ELSE [mem |-> Store(m, dst_p_p, PtrBytes(src_p)), ret |-> src_p,
               vmap_failed |-> FALSE, checked |-> TRUE]

\* ------------------------------------------------------ write-rare actions
WrResult(name, dst, arg, n, r) ==
    /\ mem' = r.mem
    /\ last' = [op |-> name, dst |-> dst, arg |-> arg, n |-> n, ret |-> r.ret,
                checked |-> r.checked, vmap_failed |-> r.vmap_failed]
    /\ nwr' = nwr + 1
    /\ UNCHANGED <<arch, areas, pools, allocs, hist, thr, mutex>>

WrMemcpy(dst, src, n, fail_at) ==
    /\ nwr < MaxWrites
    /\ WrResult("wr_memcpy", dst, src, n,
                wr_memcpy(areas, mem, dst, Bytes(mem, src, n), n, fail_at))

WrMemset(dst, c, n, fail_at) ==
    /\ nwr < MaxWrites
    /\ WrResult("wr_memset", dst, c, n, wr_memset(areas, mem, dst, c, n, fail_at))

WrPtr(dst, val, fail_at) ==
    /\ nwr < MaxWrites
    /\ WrResult("wr_ptr", dst, val, PTR_SIZE, wr_ptr(areas, mem, dst, val, fail_at))

WrRcuPtr(dst, val, fail_at) ==
    /\ nwr < MaxWrites
    /\ dst % PTR_SIZE = 0
    /\ WrResult("__wr_rcu_ptr", dst, val, PTR_SIZE,
                __wr_rcu_ptr(areas, mem, dst, val, fail_at))

\* ------------------------------------------- mm/pmalloc.c: the qmalloc pools
\* A qmalloc pool is a struct qmalloc_pool: it has no mode field.
IsQPool(p) == Live(p) /\ "mode" \notin DOMAIN pools[p]
IsPPool(p) == Live(p) /\ "mode" \in DOMAIN pools[p]

MAX_ALIGN_ORDER == PAGE_SHIFT

round_up(x, y) == ((x + y - 1) \div y) * y

is_area_protected(ar, a) == "VM_PMALLOC_PROTECTED" \in ar[a].flags

\* protect_area() of mm/pmalloc.c: [areas, ret]
q_protect_area(ar, a) ==
    IF is_area_protected(ar, a) THEN [areas |-> ar, ret |-> FALSE]
    ELSE [areas |-> [ar EXCEPT ![a].ro = TRUE,
                               ![a].flags = @ \cup {"VM_PMALLOC_PROTECTED"}],
          ret |-> TRUE]

\* the loop of qmalloc_protect_pool(): it stops at the first area that was
\* protected already
RECURSIVE q_protect_loop(_, _)
q_protect_loop(ar, chain) ==
    IF chain = <<>> THEN ar
    ELSE LET r == q_protect_area(ar, Head(chain)) IN
         IF ~r.ret THEN ar ELSE q_protect_loop(r.areas, Tail(chain))

q_exhausted(pool, size) == pool.offset < round_up(size, pool.align)

q_space_needed(ar, pool, size) ==
    pool.area = <<>> \/ is_area_protected(ar, Head(pool.area)) \/ q_exhausted(pool, size)

\* grow() of mm/pmalloc.c once vmalloc has returned addr # NULL
q_grow(ar, pool, p, size, addr) ==
    LET new == [NewArea(IF size > pool.refill THEN size ELSE pool.refill)
                    EXCEPT !.flags = @ \cup {"VM_PMALLOC"}, !.pool = p]
    IN  [areas |-> [x \in DOMAIN ar \cup {addr} |-> IF x = addr THEN new ELSE ar[x]],
         pool  |-> [pool EXCEPT !.offset = new.nr_pages * PAGE_SIZE,
                                !.area = <<addr>> \o @]]

\* qmalloc_create_pool(refill, align_order)
qmalloc_create_pool(slots, refill, align_order) ==
    LET free == { p \in slots : ~Live(p) } IN
    IF refill > LONG_MAX \/ align_order > MAX_ALIGN_ORDER \/ free = {}
    THEN /\ last' = [op |-> "qcreate", ret |-> NULL]
         /\ UNCHANGED <<arch, areas, pools, mem, allocs, hist, nwr, thr, mutex>>
    ELSE LET p == CHOOSE q \in free : \A r \in free : q <= r IN
         /\ pools' = [pools EXCEPT ![p] =
                        [area |-> <<>>,
                         refill |-> IF refill # 0 THEN PAGE_ALIGN(refill) ELSE PAGE_SIZE,
                         offset |-> 0,
                         align |-> 2 ^ align_order]]
         /\ hist' = [hist EXCEPT ![p] = [created_mode |-> {}, explicit |-> FALSE,
                                         made_ro |-> FALSE, snap |-> {}]]
         /\ last' = [op |-> "qcreate", ret |-> p]
         /\ UNCHANGED <<arch, areas, mem, allocs, nwr, thr, mutex>>

\* qmalloc(pool, size)
qmalloc(p, size, vm_ok) ==
    /\ IsQPool(p)
    /\ LET pool == pools[p]
           need == q_space_needed(areas, pool, size)
           addr == IF need
                   THEN vmalloc(areas, IF size > pool.refill THEN size ELSE pool.refill, vm_ok)
                   ELSE NULL
       IN  IF need /\ addr = NULL
           THEN /\ last' = [op |-> "qmalloc", pool |-> p, size |-> size, ret |-> NULL]
                /\ UNCHANGED <<arch, areas, pools, mem, allocs, hist, nwr, thr, mutex>>
           ELSE LET g == IF need THEN q_grow(areas, pool, p, size, addr)
                         ELSE [areas |-> areas, pool |-> pool]
                    offset == g.pool.offset - round_up(size, g.pool.align)
                    retval == Head(g.pool.area) + offset
                IN  /\ areas' = g.areas
                    /\ pools' = [pools EXCEPT ![p] = [g.pool EXCEPT !.offset = offset]]
                    /\ allocs' = allocs \cup (retval .. (retval + size - 1))
                    /\ last' = [op |-> "qmalloc", pool |-> p, size |-> size,
                                ret |-> retval]
                    /\ UNCHANGED <<arch, mem, hist, nwr, thr, mutex>>

\* qmalloc_protect_pool(pool)
qmalloc_protect_pool(p) ==
    /\ IsQPool(p)
    /\ areas' = q_protect_loop(areas, pools[p].area)
    /\ hist' = [hist EXCEPT ![p].explicit = TRUE,
                            ![p].snap = { pools[p].area[i] : i \in DOMAIN pools[p].area }]
    /\ last' = [op |-> "qprotect", pool |-> p]
    /\ UNCHANGED <<arch, pools, mem, allocs, nwr, thr, mutex>>

\* qmalloc_destroy_pool(pool)
qmalloc_destroy_pool(p) ==
    /\ IsQPool(p)
    /\ LET chain == { pools[p].area[i] : i \in DOMAIN pools[p].area } IN
       areas' = [a \in DOMAIN areas \ chain |-> areas[a]]
    /\ pools' = [pools EXCEPT ![p] = NoPool]
    /\ hist' = [hist EXCEPT ![p] = NoHist]
    /\ allocs' = { x \in allocs : AreaOf(areas, x) = NULL \/ areas[AreaOf(areas, x)].pool # p }
    /\ last' = [op |-> "qdestroy", pool |-> p]
    /\ UNCHANGED <<arch, mem, nwr, thr, mutex>>

\* ------------------------------------ mm/prmem.c, one statement group at a time
\* The pool operations as sequences of steps of a thread, for the questions
\* that depend on their interleaving and on the order of their statements.
\* excl: the callers keep pmalloc_destroy_pool apart from every other use of
\* the pool (no call is in flight when it starts, none starts while it runs).
CriticalPcs == {"a_check", "a_bump", "a_unlock", "p_body", "m_body"}
DestroyPcs == {"d_loop", "d_rw", "d_untag", "d_vfree", "d_kfree"}

Destroying(p) == \E u \in Threads : thr[u].pc \in DestroyPcs /\ thr[u].pool = p

\* pmalloc() entering its critical section without waiting for the mutex
pm_lock_no_wait(t, p, size, excl) ==
    /\ thr[t] = Idle
    /\ IsPPool(p)
    /\ excl => ~Destroying(p)
    /\ mutex' = [mutex EXCEPT ![p] = t]
    /\ thr' = [thr EXCEPT ![t] = [pc |-> "a_check", op |-> "pmalloc", pool |-> p,
                                  size |-> size,
                                  pre |-> [pool |-> pools[p], areas |-> areas]]]
    /\ UNCHANGED <<arch, areas, pools, mem, allocs, hist, nwr, last>>

\* mutex_lock(&pool->mutex), first statement of pmalloc()
pm_lock(t, p, size, excl) ==
    /\ thr[t] = Idle
    /\ IsPPool(p)
    /\ excl => ~Destroying(p)
    /\ mutex[p] = 0
    /\ mutex' = [mutex EXCEPT ![p] = t]
    /\ thr' = [thr EXCEPT ![t] = [pc |-> "a_check", op |-> "pmalloc", pool |-> p,
                                  size |-> size,
                                  pre |-> [pool |-> pools[p], areas |-> areas]]]
    /\ UNCHANGED <<arch, areas, pools, mem, allocs, hist, nwr, last>>

\* the space check of pmalloc() with a grow() that protects the current area
\* of an auto-protect pool before it looks at the result of vmalloc()
pm_check_protects_before_vmalloc(t, vm_ok) ==
    /\ thr[t].pc = "a_check"
    /\ Live(thr[t].pool) /\ ~Destroying(thr[t].pool)
    /\ LET p == thr[t].pool
           size == thr[t].size
           pool == pools[p]
           need == space_needed(areas, pool, size)
           addr == IF need THEN vmalloc(areas, GrowSize(pool, size), vm_ok) ELSE NULL
       IN  IF need /\ addr = NULL
           THEN /\ thr' = [thr EXCEPT ![t] = [@ EXCEPT !.pc = "a_unlock"] @@ [ret |-> NULL]]
                /\ areas' = IF "PMALLOC_AUTO" \in pool.mode /\ ~empty(pool)
                            THEN protect_area(areas, Head(pool.area)) ELSE areas
                /\ UNCHANGED pools
           ELSE LET g == IF need THEN grow(areas, pool, p, size, addr)
                         ELSE [areas |-> areas, pool |-> pool]
                IN  /\ areas' = g.areas
                    /\ pools' = [pools EXCEPT ![p] = g.pool]
                    /\ thr' = [thr EXCEPT ![t].pc = "a_bump"]
    /\ UNCHANGED <<arch, mem, allocs, hist, nwr, last, mutex>>

\* if (space_needed(pool, size) && grow(pool, size) != 0) goto error;
pm_check(t, vm_ok) ==
    /\ thr[t].pc = "a_check"
    /\ Live(thr[t].pool) /\ ~Destroying(thr[t].pool)
    /\ LET p == thr[t].pool
           size == thr[t].size
           pool == pools[p]
           need == space_needed(areas, pool, size)
           addr == IF need THEN vmalloc(areas, GrowSize(pool, size), vm_ok) ELSE NULL
       IN  IF need /\ addr = NULL
           THEN /\ thr' = [thr EXCEPT ![t] = [@ EXCEPT !.pc = "a_unlock"] @@ [ret |-> NULL]]
                /\ UNCHANGED <<arch, areas, pools>>
           ELSE LET g == IF need THEN grow(areas, pool, p, size, addr)
                         ELSE [areas |-> areas, pool |-> pool]
                IN  /\ areas' = g.areas
                    /\ pools' = [pools EXCEPT ![p] = g.pool]
                    /\ thr' = [thr EXCEPT ![t].pc = "a_bump"]
    /\ UNCHANGED <<arch, mem, allocs, hist, nwr, last, mutex>>

\* pool->offset = round_down(pool->offset - size, pool->align); retval = ...
pm_bump(t) ==
    /\ thr[t].pc = "a_bump"
    /\ Live(thr[t].pool) /\ ~Destroying(thr[t].pool)
    /\ pools[thr[t].pool].area # <<>>
    /\ LET p == thr[t].pool
           offset == round_down(pools[p].offset - thr[t].size, pools[p].align)
       IN  /\ pools' = [pools EXCEPT ![p].offset = offset]
           /\ thr' = [thr EXCEPT ![t] = [@ EXCEPT !.pc = "a_unlock"]
                                        @@ [ret |-> Head(pools[p].area) + offset]]
    /\ UNCHANGED <<arch, areas, mem, allocs, hist, nwr, last, mutex>>

\* error: mutex_unlock(&pool->mutex); return retval;
pm_unlock(t) ==
    /\ thr[t].pc = "a_unlock"
    /\ Live(thr[t].pool) /\ ~Destroying(thr[t].pool)
    /\ mutex' = [mutex EXCEPT ![thr[t].pool] = 0]
    /\ allocs' = IF thr[t].ret = NULL THEN allocs
                 ELSE allocs \cup (thr[t].ret .. (thr[t].ret + thr[t].size - 1))
    /\ last' = [op |-> "pmalloc", pool |-> thr[t].pool, size |-> thr[t].size,
                ret |-> thr[t].ret]
    /\ thr' = [thr EXCEPT ![t] = Idle]
    /\ UNCHANGED <<arch, areas, pools, mem, hist, nwr>>

\* mutex_lock(&pool->mutex), first statement of pmalloc_protect_pool()
pr_lock(t, p, excl) ==
    /\ thr[t] = Idle
    /\ IsPPool(p)
    /\ excl => ~Destroying(p)
    /\ mutex[p] = 0
    /\ mutex' = [mutex EXCEPT ![p] = t]
    /\ thr' = [thr EXCEPT ![t] = [pc |-> "p_body", op |-> "protect", pool |-> p]]
    /\ UNCHANGED <<arch, areas, pools, mem, allocs, hist, nwr, last>>

\* the loop of pmalloc_protect_pool() and its mutex_unlock()
pr_body(t) ==
    /\ thr[t].pc = "p_body"
    /\ Live(thr[t].pool) /\ ~Destroying(thr[t].pool)
    /\ LET p == thr[t].pool IN
       /\ areas' = protect_all(areas, pools[p].area)
       /\ hist' = [hist EXCEPT ![p].explicit = TRUE,
                               ![p].snap = IF "PMALLOC_START" \in pools[p].mode
                                           THEN @
                                           ELSE { pools[p].area[i] : i \in DOMAIN pools[p].area }]
       /\ last' = [op |-> "protect", pool |-> p]
       /\ mutex' = [mutex EXCEPT ![p] = 0]
    /\ thr' = [thr EXCEPT ![t] = Idle]
    /\ UNCHANGED <<arch, pools, mem, allocs, nwr>>

\* mutex_lock(&pool->mutex), first statement of pmalloc_make_pool_ro()
mr_lock(t, p, excl) ==
    /\ thr[t] = Idle
    /\ IsPPool(p)
    /\ excl => ~Destroying(p)
    /\ mutex[p] = 0
    /\ mutex' = [mutex EXCEPT ![p] = t]
    /\ thr' = [thr EXCEPT ![t] = [pc |-> "m_body", op |-> "make_pool_ro", pool |-> p]]
    /\ UNCHANGED <<arch, areas, pools, mem, allocs, hist, nwr, last>>

\* the mode change and the loop of pmalloc_make_pool_ro(), and its
\* mutex_unlock()
mr_body(t) ==
    /\ thr[t].pc = "m_body"
    /\ Live(thr[t].pool) /\ ~Destroying(thr[t].pool)
    /\ LET p == thr[t].pool IN
       /\ pools' = [pools EXCEPT ![p].mode = @ \ {"PMALLOC_WR", "PMALLOC_START"}]
       /\ areas' = protect_all(areas, pools[p].area)
       /\ hist' = [hist EXCEPT ![p].explicit = TRUE, ![p].made_ro = TRUE]
       /\ last' = [op |-> "make_pool_ro", pool |-> p]
       /\ mutex' = [mutex EXCEPT ![p] = 0]
    /\ thr' = [thr EXCEPT ![t] = Idle]
    /\ UNCHANGED <<arch, mem, allocs, nwr>>

\* pmalloc_destroy_pool(): list_del(&pool->pool_node) under pools_mutex.
\* pool->mutex is not taken.
ds_start(t, p, excl) ==
    /\ thr[t] = Idle
    /\ IsPPool(p)
    /\ ~Destroying(p)
    /\ excl => (mutex[p] = 0 /\ \A u \in Threads : thr[u] = Idle)
    /\ thr' = [thr EXCEPT ![t] = [pc |-> "d_loop", op |-> "destroy", pool |-> p,
                                  area |-> NULL]]
    /\ UNCHANGED <<arch, areas, pools, mem, allocs, hist, nwr, last, mutex>>

\* while (pool->area) { area = pool->area; pool->area = area->next;
ds_loop(t) ==
    /\ thr[t].pc = "d_loop"
    /\ LET p == thr[t].pool IN
       IF pools[p].area # <<>>
       THEN /\ thr' = [thr EXCEPT ![t].pc = "d_rw", ![t].area = Head(pools[p].area)]
            /\ pools' = [pools EXCEPT ![p].area = Tail(@)]
       ELSE /\ thr' = [thr EXCEPT ![t].pc = "d_kfree", ![t].area = NULL]
            /\ UNCHANGED pools
    /\ UNCHANGED <<arch, areas, mem, allocs, hist, nwr, last, mutex>>

\* set_memory_rw(area->va_start, area->vm->nr_pages);
ds_rw(t) ==
    /\ thr[t].pc = "d_rw"
    /\ areas' = [areas EXCEPT ![thr[t].area].ro = FALSE]
    /\ thr' = [thr EXCEPT ![t].pc = "d_untag"]
    /\ UNCHANGED <<arch, pools, mem, allocs, hist, nwr, last, mutex>>

\* the untagging statement clearing VM_PMALLOC only
ds_untag_pmalloc_only(t) ==
    /\ thr[t].pc = "d_untag"
    /\ areas' = [areas EXCEPT ![thr[t].area].flags = @ \ {"VM_PMALLOC"}]
    /\ thr' = [thr EXCEPT ![t].pc = "d_vfree"]
    /\ UNCHANGED <<arch, pools, mem, allocs, hist, nwr, last, mutex>>

\* area->vm->flags &= ~VM_PMALLOC_MASK;
ds_untag(t) ==
    /\ thr[t].pc = "d_untag"
    /\ areas' = [areas EXCEPT ![thr[t].area].flags = @ \ VM_PMALLOC_MASK]
    /\ thr' = [thr EXCEPT ![t].pc = "d_vfree"]
    /\ UNCHANGED <<arch, pools, mem, allocs, hist, nwr, last, mutex>>

\* vfree((void *)area->va_start); }
ds_vfree(t) ==
    /\ thr[t].pc = "d_vfree"
    /\ thr[t].area \in DOMAIN areas
    /\ areas' = [a \in DOMAIN areas \ {thr[t].area} |-> areas[a]]
    /\ allocs' = allocs \ AreaBytes(areas, thr[t].area)
    /\ thr' = [thr EXCEPT ![t].pc = "d_loop", ![t].area = NULL]
    /\ UNCHANGED <<arch, pools, mem, hist, nwr, last, mutex>>

\* kfree(pool);
ds_kfree(t) ==
    /\ thr[t].pc = "d_kfree"
    /\ pools' = [pools EXCEPT ![thr[t].pool] = NoPool]
    /\ hist' = [hist EXCEPT ![thr[t].pool] = NoHist]
    /\ mutex' = [mutex EXCEPT ![thr[t].pool] = 0]
    /\ last' = [op |-> "destroy", pool |-> thr[t].pool]
    /\ thr' = [thr EXCEPT ![t] = Idle]
    /\ UNCHANGED <<arch, areas, mem, allocs, nwr>>

\* A thread inside pmalloc, pmalloc_protect_pool or pmalloc_make_pool_ro
\* whose pool is being taken apart, or has been freed, by a concurrent
\* pmalloc_destroy_pool: its accesses to the pool race with the destroyer's
\* or reach freed memory.  Its statements have a defined effect (the steps
\* above) only while no destroyer is at work; otherwise what it does is
\* undefined, and this is the only step it has.
undefined(t) ==
    /\ thr[t].pc \in CriticalPcs
    /\ ~Live(thr[t].pool) \/ Destroying(thr[t].pool)
    /\ thr' = [thr EXCEPT ![t] = [pc |-> "undefined", op |-> thr[t].op,
                                  pool |-> thr[t].pool]]
    /\ UNCHANGED <<arch, areas, pools, mem, allocs, hist, nwr, last, mutex>>

\* ------------------------------- hardened usercopy: is_pmalloc_object
INVALID_PMALLOC_OBJECT == -1
NOT_PMALLOC_OBJECT == 0
VALID_PMALLOC_OBJECT == 1

\* vmalloc_to_page(ptr): the area whose page backs ptr, NULL when no page
\* does (ptr is in a guard page or in an unused part of the vmalloc range)
vmalloc_to_page(ar, ptr) == AreaOf(ar, ptr)

\* mm/pmalloc.c: int is_pmalloc_object(const void *ptr, const unsigned long n)
is_pmalloc_object(ar, ptr, n) ==
    IF ~is_vmalloc_addr(ptr) THEN NOT_PMALLOC_OBJECT
    ELSE IF vmalloc_to_page(ar, ptr) = NULL THEN NOT_PMALLOC_OBJECT
    ELSE LET area == vmalloc_to_page(ar, ptr)
         IN  IF "VM_PMALLOC" \notin ar[area].flags THEN NOT_PMALLOC_OBJECT
             ELSE LET area_start == area
                      area_end == ulong(area_start + ar[area].nr_pages * PAGE_SIZE - 1)
                      object_start == ptr
                      object_end == ulong(object_start + n - 1)
                  IN  IF area_start <= object_start /\ object_end <= area_end
                      THEN VALID_PMALLOC_OBJECT
                      ELSE INVALID_PMALLOC_OBJECT

\* mm/usercopy.c: static inline int is_pmalloc_object(ptr, n), the set of
\* values it can return; vmalloc_to_page(ptr)->area dereferences a NULL
\* page when no page backs ptr: the kernel faults or reads any value
null_page_deref(ar, ptr) == is_vmalloc_addr(ptr) /\ vmalloc_to_page(ar, ptr) = NULL

usercopy_is_pmalloc_object(ar, ptr, n) ==
    LET start == ptr
        end == ulong(start + n)
    IN  IF ~is_vmalloc_addr(ptr) THEN {0}
        ELSE IF null_page_deref(ar, ptr) THEN {0, 1}
        ELSE LET area == vmalloc_to_page(ar, ptr)
             IN  IF "VM_PMALLOC" \notin ar[area].flags THEN {0}
                 ELSE LET area_end == ulong(ar[area].nr_pages * PAGE_SIZE + area)
                      IN  IF start <= end /\ end <= area_end THEN {1} ELSE {0}

\* a caller asks mm/pmalloc.c to classify [ptr, ptr + n)
call_is_pmalloc_object(ptr, n) ==
    /\ last' = [op |-> "is_pmalloc_object", ptr |-> ptr, n |-> n,
                ret |-> is_pmalloc_object(areas, ptr, n)]
    /\ UNCHANGED <<arch, areas, pools, mem, allocs, hist, nwr, thr, mutex>>

\* mm/usercopy.c: check_pmalloc_object(ptr, n, to_user); halt names the
\* message of usercopy_abort, "none" when the function returns
check_pmalloc_object(ptr, n, to_user) ==
    /\ \E retv \in usercopy_is_pmalloc_object(areas, ptr, n),
          oops \in {FALSE, null_page_deref(areas, ptr)} :
         last' = [op |-> "check_pmalloc_object", ptr |-> ptr, n |-> n,
                  to_user |-> to_user,
                  halt |-> IF oops THEN "oops"
                           ELSE IF retv # 0 /\ ~to_user
                                THEN "trying to write to pmalloc object"
                           ELSE IF retv # 0 /\ retv < 0
                                THEN "invalid pmalloc object"
                           ELSE "none"]
    /\ UNCHANGED <<arch, areas, pools, mem, allocs, hist, nwr, thr, mutex>>

\* ----------------------------- include/linux/prmem.h: array allocations
\* the test of pmalloc_array() and pcalloc() without the division
array_size_ok_nonzero_only(n, size) == n # 0

\* n && (total_size / n == size), with total_size = n * size in size_t
array_size_ok(n, size) == n # 0 /\ ulong(n * size) \div n = size

\* pmalloc_array(pool, n, size)
pmalloc_array(p, n, size, vm_ok) ==
    /\ Live(p)
    /\ IF ~array_size_ok(n, size)
       THEN /\ last' = [op |-> "pmalloc_array", n |-> n, elem |-> size,
                        called |-> FALSE, pool |-> p, size |-> 0, ret |-> NULL]
            /\ UNCHANGED <<arch, areas, pools, mem, allocs, hist, nwr, thr, mutex>>
       ELSE pmalloc_body(p, ulong(n * size), vm_ok,
                         [op |-> "pmalloc_array", n |-> n, elem |-> size,
                          called |-> TRUE], FALSE)

\* pcalloc(pool, n, size), through pzalloc()
pcalloc(p, n, size, vm_ok) ==
    /\ Live(p)
    /\ IF ~array_size_ok(n, size)
       THEN /\ last' = [op |-> "pcalloc", n |-> n, elem |-> size,
                        called |-> FALSE, pool |-> p, size |-> 0, ret |-> NULL]
            /\ UNCHANGED <<arch, areas, pools, mem, allocs, hist, nwr, thr, mutex>>
       ELSE pmalloc_body(p, ulong(n * size), vm_ok,
                         [op |-> "pcalloc", n |-> n, elem |-> size,
                          called |-> TRUE], TRUE)

\* ------------------------ include/linux/pmalloc.h: pool-scoped write rare
__get_area_pages_end(ar, area) == area + ar[area].nr_pages * PAGE_SIZE

__area_contains_range(ar, area, addr, n_bytes) ==
    LET area_end == __get_area_pages_end(ar, area)
        range_start == addr
        range_end == ulong(range_start + n_bytes)
    IN  n_bytes > 0 /\ area <= range_start /\ range_end <= area_end

\* __pool_get_area(pool, addr, n_bytes): the first area of the pool's list
\* that contains the range, NULL when none does or when it is not tagged
__pool_get_area(ar, pool, addr, n_bytes) ==
    IF ~is_vmalloc_addr(addr) THEN NULL
    ELSE LET hits == { i \in DOMAIN pool.area :
                          __area_contains_range(ar, pool.area[i], addr, n_bytes) }
         IN  IF hits = {} THEN NULL
             ELSE LET area == pool.area[CHOOSE i \in hits : \A j \in hits : i <= j]
                  IN  IF "VM_PMALLOC" \notin ar[area].flags THEN NULL ELSE area

__is_area_wr(ar, area) == {"VM_PMALLOC", "VM_PMALLOC_WR"} \subseteq ar[area].flags

__check_wr(ar, pool, dst, n_bytes) ==
    LET area == __pool_get_area(ar, pool, dst, n_bytes)
    IN  area # NULL /\ __is_area_wr(ar, area)

\* The data still to be written: the bytes b, or the byte c without end.
SrcBytes(b) == [kind |-> "bytes", b |-> b]
SrcFill(c) == [kind |-> "fill", c |-> c % 256]
SrcTake(s, k) == IF s.kind = "fill" THEN [i \in 1 .. k |-> s.c] ELSE SubSeq(s.b, 1, k)
SrcDrop(s, k) == IF s.kind = "fill" THEN s ELSE SrcBytes(SubSeq(s.b, k + 1, Len(s.b)))

\* The raw write-rare primitive on vmalloc addresses, page by page.  A
\* negative (int)n_bytes makes the size of the store negative, which as a
\* size_t is larger than any mapping: the store runs off the remapped page
\* and faults, pre being the memory before that store and mem the memory
\* with the page filled to its end; a zero (int)n_bytes with n_bytes # 0
\* stores nothing and the loop never ends.
RECURSIVE __raw_wr(_, _, _, _, _, _)
__raw_wr(ar, m, d, s, n_bytes, fail_at) ==
    IF n_bytes = 0 THEN [mem |-> m, pre |-> m, ret |-> TRUE, halt |-> "none"]
    ELSE LET page == vmalloc_to_page(ar, d)
             offset == d % PAGE_SIZE
             offset_complement == PAGE_SIZE - offset
             size == Min(IntCast(n_bytes), IntCast(offset_complement))
         IN  IF page = NULL \/ fail_at = 1
             THEN [mem |-> m, pre |-> m, ret |-> FALSE, halt |-> "none"]
             ELSE IF size < 0
             THEN [mem |-> Store(m, d, SrcTake(s, offset_complement)), pre |-> m,
                   ret |-> FALSE, halt |-> "fault"]
             ELSE IF size = 0
             THEN [mem |-> m, pre |-> m, ret |-> FALSE, halt |-> "hang"]
             ELSE __raw_wr(ar, Store(m, d, SrcTake(s, size)), d + size,
                           SrcDrop(s, size), ulong(n_bytes - size),
                           IF fail_at = 0 THEN 0 ELSE fail_at - 1)

\* pmalloc_wr_memset(pool, dst, c, n_bytes)
pmalloc_wr_memset(ar, m, pool, dst, c, n_bytes, fail_at) ==
    IF ~__check_wr(ar, pool, dst, n_bytes)
    THEN [mem |-> m, pre |-> m, ret |-> FALSE, halt |-> "none"]
    ELSE __raw_wr(ar, m, dst, SrcFill(c), n_bytes, fail_at)

\* pmalloc_wr_copy(pool, dst, src, n_bytes), src given by the bytes it holds
pmalloc_wr_copy(ar, m, pool, dst, src, n_bytes, fail_at) ==
    IF ~__check_wr(ar, pool, dst, n_bytes)
    THEN [mem |-> m, pre |-> m, ret |-> FALSE, halt |-> "none"]
    ELSE __raw_wr(ar, m, dst, SrcBytes(src), n_bytes, fail_at)

\* how much of a store that runs off its mapping lands before the fault is
\* not defined: all of the page (mem) or nothing (pre)
PoolWrResult(name, p, dst, n, r) ==
    /\ mem' \in {r.mem, IF r.halt = "fault" THEN r.pre ELSE r.mem}
    /\ last' = [op |-> name, pool |-> p, dst |-> dst, n |-> n, ret |-> r.ret,
                halt |-> r.halt]
    /\ nwr' = nwr + 1
    /\ UNCHANGED <<arch, areas, pools, allocs, hist, thr, mutex>>

PmallocWrMemset(p, dst, c, n, fail_at) ==
    /\ nwr < MaxWrites
    /\ Live(p)
    /\ PoolWrResult("pmalloc_wr_memset", p, dst, n,
                    pmalloc_wr_memset(areas, mem, pools[p], dst, c, n, fail_at))

PmallocWrCopy(p, dst, src, n, fail_at) ==
    /\ nwr < MaxWrites
    /\ Live(p)
    /\ PoolWrResult("pmalloc_wr_copy", p, dst, n,
                    pmalloc_wr_copy(areas, mem, pools[p], dst, Bytes(mem, src, n),
                                    n, fail_at))

\* ---------------------------- include/linux/prlist.h: protected lists
\* A union prlist_head is two pointers, next then prev.  Every protected
\* list operation is a sequence of stores to link fields; a list state st is
\* the memory together with the log of the stores made so far and how each
\* was issued.  vmap() of the one page a pointer lies in is taken to succeed.
LIST_POISON1 == 256
LIST_POISON2 == 512

\* &head->next and &head->prev
AddrNext(head) == head
AddrPrev(head) == head + PTR_SIZE

\* the pointer whose object representation is the byte sequence b
RECURSIVE PtrVal(_)
PtrVal(b) == IF b = <<>> THEN 0 ELSE Head(b) + 256 * PtrVal(Tail(b))

\* *(void **)a
LoadPtr(m, a) == PtrVal(Bytes(m, a, PTR_SIZE))

\* head->next and head->prev
next_of(m, head) == LoadPtr(m, AddrNext(head))
prev_of(m, head) == LoadPtr(m, AddrPrev(head))

ListSt(m) == [mem |-> m, log |-> <<>>]

\* wr_ptr(dst, val) as the list setters call it: the result is ignored
wr_link(ar, st, dst, val) ==
    [mem |-> wr_ptr(ar, st.mem, dst, val, 0).mem,
     log |-> Append(st.log, [dst |-> dst, val |-> val, via |-> "wr_ptr"])]

prlist_set_prev(ar, st, head, prev) == wr_link(ar, st, AddrPrev(head), prev)

prlist_set_next(ar, st, head, next) == wr_link(ar, st, AddrNext(head), next)

INIT_PRLIST_HEAD(ar, st, head) ==
    prlist_set_next(ar, prlist_set_prev(ar, st, head, head), head, head)

\* __list_add_valid(new, prev, next), as CONFIG_DEBUG_LIST checks it
__list_add_valid(m, new, prev, next) ==
    /\ prev_of(m, next) = prev
    /\ next_of(m, prev) = next
    /\ new # prev /\ new # next

__prlist_add(ar, st, new, prev, next) ==
    IF ~__list_add_valid(st.mem, new, prev, next) THEN st
    ELSE LET s1 == prlist_set_prev(ar, st, next, new)
             s2 == prlist_set_next(ar, s1, new, next)
             s3 == prlist_set_prev(ar, s2, new, prev)
         IN  prlist_set_next(ar, s3, prev, new)

\* prlist_add() that inserts before the head instead of after it
prlist_add_before_head(ar, st, new, head) ==
    __prlist_add(ar, st, new, prev_of(st.mem, head), head)

prlist_add(ar, st, new, head) ==
    __prlist_add(ar, st, new, head, next_of(st.mem, head))

\* prlist_add_tail() that inserts after the head instead of before it
prlist_add_tail_after_head(ar, st, new, head) ==
    __prlist_add(ar, st, new, head, next_of(st.mem, head))

prlist_add_tail(ar, st, new, head) ==
    __prlist_add(ar, st, new, prev_of(st.mem, head), head)

\* __prlist_del() that relinks only the forward pointer
__prlist_del_forward_only(ar, st, prev, next) ==
    prlist_set_next(ar, st, prev, next)

__prlist_del(ar, st, prev, next) ==
    prlist_set_next(ar, prlist_set_prev(ar, st, next, prev), prev, next)

\* __list_del_entry_valid(entry), as CONFIG_DEBUG_LIST checks it
__list_del_entry_valid(m, entry) ==
    LET prev == prev_of(m, entry)
        next == next_of(m, entry)
    IN  /\ next # LIST_POISON1
        /\ prev # LIST_POISON2
        /\ next_of(m, prev) = entry
        /\ prev_of(m, next) = entry

\* __prlist_del_entry() that takes the entry itself for its successor
__prlist_del_entry_wrong_next(ar, st, entry) ==
    IF ~__list_del_entry_valid(st.mem, entry) THEN st
    ELSE __prlist_del(ar, st, prev_of(st.mem, entry), entry)

__prlist_del_entry(ar, st, entry) ==
    IF ~__list_del_entry_valid(st.mem, entry) THEN st
    ELSE __prlist_del(ar, st, prev_of(st.mem, entry), next_of(st.mem, entry))

prlist_del(ar, st, entry) ==
    LET s1 == __prlist_del_entry(ar, st, entry)
        s2 == prlist_set_next(ar, s1, entry, LIST_POISON1)
    IN  prlist_set_prev(ar, s2, entry, LIST_POISON2)

\* The lists of lib/test_prlist.c: the head is a static __wr_after_init
\* object, the nodes come from a pool made by prlist_create_pool(), which
\* starts write rare and protected.  The section of static objects is
\* read-only by the time the lists are used.
NODE_SIZE == 2 * PTR_SIZE
ListHead == __start_wr_after_init
ListChunk == VMALLOC_START
ListPool == CHOOSE p \in OnePool : TRUE
ListNodes == { ListChunk + i * NODE_SIZE : i \in 0 .. MaxNodes - 1 }

PMALLOC_START_WR == {"PMALLOC_WR", "PMALLOC_START"}

prlist_create_custom_pool(refill, align_order) ==
    init_custom_pool(refill, align_order, PMALLOC_START_WR)

\* a pool of the given mode, made with a refill of MaxNodes nodes, after
\* pmalloc() has handed out MaxNodes nodes from its one chunk
ListGrownMode(mode) ==
    LET g == grow([x \in {} |-> 0],
                  init_custom_pool(MaxNodes * NODE_SIZE, -1, mode),
                  ListPool, MaxNodes * NODE_SIZE, ListChunk)
    IN  [areas |-> g.areas, pool |-> [g.pool EXCEPT !.offset = 0]]

ListGrown == ListGrownMode(prlist_create_custom_pool(0, -1).mode)

\* the forward and the backward traversal from head: the nodes visited
\* before the walk comes back to head or leaves the nodes
RECURSIVE FwdFrom(_, _, _, _)
FwdFrom(m, head, at, fuel) ==
    IF at = head \/ at \notin ListNodes \/ fuel = 0 THEN <<>>
    ELSE <<at>> \o FwdFrom(m, head, next_of(m, at), fuel - 1)

RECURSIVE BwdFrom(_, _, _, _)
BwdFrom(m, head, at, fuel) ==
    IF at = head \/ at \notin ListNodes \/ fuel = 0 THEN <<>>
    ELSE <<at>> \o BwdFrom(m, head, prev_of(m, at), fuel - 1)

Forward(m, head) == FwdFrom(m, head, next_of(m, head), MaxNodes + 1)
Backward(m, head) == BwdFrom(m, head, prev_of(m, head), MaxNodes + 1)

SeqSet(s) == { s[i] : i \in DOMAIN s }
Reverse(s) == [i \in DOMAIN s |-> s[Len(s) + 1 - i]]
list_empty(m, head) == next_of(m, head) = head

InitList ==
    /\ areas = ListGrown.areas
    /\ pools = [p \in PoolIds |-> IF p = ListPool THEN ListGrown.pool ELSE NoPool]
    /\ mem = Store(Store(InitMem, AddrNext(ListHead), PtrBytes(ListHead)),
                   AddrPrev(ListHead), PtrBytes(ListHead))
    /\ allocs = ListChunk .. (ListChunk + MaxNodes * NODE_SIZE - 1)
    /\ hist = [p \in PoolIds |->
                 IF p = ListPool
                 THEN [created_mode |-> PMALLOC_START_WR, explicit |-> FALSE,
                       made_ro |-> FALSE, snap |-> {},
                       heads |-> <<>>, tails |-> <<>>]
                 ELSE NoHist]
    /\ nwr = 0
    /\ last = NoCall
    /\ thr = [t \in Threads |-> Idle]
    /\ mutex = [p \in PoolIds |-> 0]
    /\ arch = ArchBoot("generic")

\* the sequence s without the element x
Without(s, x) == SelectSeq(s, LAMBDA y : y # x)

\* history: the nodes that were added by prlist_add() and by
\* prlist_add_tail() and not deleted since, in the order of their insertion
ListHist(name, n) ==
    LET h == hist[ListPool] IN
    hist' = [hist EXCEPT ![ListPool] =
               [h EXCEPT !.heads = IF name = "prlist_add" THEN Append(h.heads, n)
                                   ELSE Without(h.heads, n),
                         !.tails = IF name = "prlist_add_tail" THEN Append(h.tails, n)
                                   ELSE Without(h.tails, n)]]

ListResult(name, n, st) ==
    /\ mem' = st.mem
    /\ last' = [op |-> name, node |-> n, log |-> st.log]
    /\ ListHist(name, n)
    /\ UNCHANGED <<arch, areas, pools, allocs, nwr, thr, mutex>>

ListIdle == \A t \in Threads : thr[t] = Idle

\* callers add a node that is on no list and delete one that is on the list
PrlistAdd(n) ==
    /\ ListIdle /\ n \notin SeqSet(Forward(mem, ListHead))
    /\ ListResult("prlist_add", n, prlist_add(areas, ListSt(mem), n, ListHead))

PrlistAddTail(n) ==
    /\ ListIdle /\ n \notin SeqSet(Forward(mem, ListHead))
    /\ ListResult("prlist_add_tail", n,
                  prlist_add_tail(areas, ListSt(mem), n, ListHead))

PrlistDel(n) ==
    /\ ListIdle /\ n \in SeqSet(Forward(mem, ListHead))
    /\ ListResult("prlist_del", n, prlist_del(areas, ListSt(mem), n))

\* test_teardown_prlist(): for (i = 0; !list_empty(head); i++) delete
\* head.next, one iteration at a time; how: the deletion the loop calls
TeardownStart(t, how) ==
    /\ ListIdle
    /\ thr' = [thr EXCEPT ![t] = [pc |-> "teardown", i |-> 0, how |-> how,
                                  initial |-> Forward(mem, ListHead),
                                  removed |-> <<>>]]
    /\ UNCHANGED <<arch, areas, pools, mem, allocs, hist, nwr, last, mutex>>

TeardownStep(t) ==
    /\ thr[t].pc = "teardown"
    /\ IF list_empty(mem, ListHead)
       THEN /\ thr' = [thr EXCEPT ![t] = Idle]
            /\ last' = [op |-> "teardown", i |-> thr[t].i,
                        initial |-> thr[t].initial, removed |-> thr[t].removed]
            /\ UNCHANGED <<arch, areas, pools, mem, allocs, hist, nwr, mutex>>
       ELSE LET entry == next_of(mem, ListHead)
                st == IF thr[t].how = "prlist_del"
                      THEN prlist_del(areas, ListSt(mem), entry)
                      ELSE __prlist_del_entry(areas, ListSt(mem), entry)
            IN  /\ mem' = st.mem
                /\ thr' = [thr EXCEPT ![t].i = @ + 1,
                                      ![t].removed = Append(@, entry)]
                /\ ListHist(thr[t].how, entry)
                /\ UNCHANGED <<arch, areas, pools, allocs, nwr, last, mutex>>

\* ---- replace, del_init, move and splice, on two list heads
prlist_replace(ar, st, old, new) ==
    LET s1 == prlist_set_next(ar, st, new, next_of(st.mem, old))
        s2 == prlist_set_prev(ar, s1, next_of(s1.mem, new), new)
        s3 == prlist_set_prev(ar, s2, new, prev_of(s2.mem, old))
    IN  prlist_set_next(ar, s3, prev_of(s3.mem, new), new)

prlist_del_init(ar, st, entry) ==
    INIT_PRLIST_HEAD(ar, __prlist_del_entry(ar, st, entry), entry)

prlist_move(ar, st, list, head) ==
    prlist_add(ar, __prlist_del_entry(ar, st, list), list, head)

prlist_move_tail(ar, st, list, head) ==
    prlist_add_tail(ar, __prlist_del_entry(ar, st, list), list, head)

\* __prlist_splice() that leaves next->prev as it was
__prlist_splice_forward_only(ar, st, list, prev, next) ==
    LET first == next_of(st.mem, list)
        last_ == prev_of(st.mem, list)
        s1 == prlist_set_prev(ar, st, first, prev)
        s2 == prlist_set_next(ar, s1, prev, first)
    IN  prlist_set_next(ar, s2, last_, next)

__prlist_splice(ar, st, list, prev, next) ==
    LET first == next_of(st.mem, list)
        last_ == prev_of(st.mem, list)
        s1 == prlist_set_prev(ar, st, first, prev)
        s2 == prlist_set_next(ar, s1, prev, first)
        s3 == prlist_set_next(ar, s2, last_, next)
    IN  prlist_set_prev(ar, s3, next, last_)

prlist_splice_init(ar, st, list, head) ==
    IF list_empty(st.mem, list) THEN st
    ELSE INIT_PRLIST_HEAD(ar,
             __prlist_splice(ar, st, list, head, next_of(st.mem, head)), list)

\* A second head, allocated from the pool after the MaxNodes nodes.
ListHead2 == ListChunk + MaxNodes * NODE_SIZE
ListHeads == {ListHead, ListHead2}

TwoListsGrown ==
    LET g == grow([x \in {} |-> 0],
                  init_custom_pool((MaxNodes + 1) * NODE_SIZE, -1,
                                   prlist_create_custom_pool(0, -1).mode),
                  ListPool, (MaxNodes + 1) * NODE_SIZE, ListChunk)
    IN  [areas |-> g.areas, pool |-> [g.pool EXCEPT !.offset = 0]]

\* what the link fields of a head may hold before it is initialized
StaleLinks == {NULL, ListChunk}

InitTwoLists ==
    /\ areas = TwoListsGrown.areas
    /\ pools = [p \in PoolIds |-> IF p = ListPool THEN TwoListsGrown.pool ELSE NoPool]
    /\ \E g \in StaleLinks :
         mem = Store(Store(InitMem, ListHead, PtrBytes(g) \o PtrBytes(g)),
                     ListHead2, PtrBytes(g) \o PtrBytes(g))
    /\ allocs = ListChunk .. (ListChunk + (MaxNodes + 1) * NODE_SIZE - 1)
    /\ hist = [p \in PoolIds |->
                 IF p = ListPool
                 THEN [created_mode |-> PMALLOC_START_WR, explicit |-> FALSE,
                       made_ro |-> FALSE, snap |-> {}, inited |-> {}]
                 ELSE NoHist]
    /\ nwr = 0
    /\ last = NoCall
    /\ thr = [t \in Threads |-> Idle]
    /\ mutex = [p \in PoolIds |-> 0]
    /\ arch = ArchBoot("generic")

\* the heads INIT_PRLIST_HEAD() has been called on, and the nodes on a list
Inited == hist[ListPool].inited
OnList(m, h) == SeqSet(Forward(m, h))
OnSomeList(m) == UNION { OnList(m, h) : h \in Inited }

TwoListsResult(name, n, at, st) ==
    /\ mem' = st.mem
    /\ last' = [op |-> name, node |-> n, at |-> at,
                moved |-> IF n \in ListHeads THEN Len(Forward(mem, n)) ELSE 1]
    /\ UNCHANGED <<arch, areas, pools, allocs, nwr, thr, mutex>>

ListInitHead(h) ==
    /\ h \notin Inited
    /\ TwoListsResult("INIT_PRLIST_HEAD", h, h, INIT_PRLIST_HEAD(areas, ListSt(mem), h))
    /\ hist' = [hist EXCEPT ![ListPool].inited = @ \cup {h}]

\* callers add a node that is on no list, after or before a head or an entry
ListAddAt(n, at, tail) ==
    /\ n \in ListNodes \ OnSomeList(mem)
    /\ at \in Inited \cup OnSomeList(mem)
    /\ TwoListsResult(IF tail THEN "prlist_add_tail" ELSE "prlist_add", n, at,
                      IF tail THEN prlist_add_tail(areas, ListSt(mem), n, at)
                      ELSE prlist_add(areas, ListSt(mem), n, at))
    /\ UNCHANGED hist

ListDel(n, init) ==
    /\ n \in OnSomeList(mem)
    /\ TwoListsResult(IF init THEN "prlist_del_init" ELSE "prlist_del", n, n,
                      IF init THEN prlist_del_init(areas, ListSt(mem), n)
                      ELSE prlist_del(areas, ListSt(mem), n))
    /\ UNCHANGED hist

ListMove(n, h, tail) ==
    /\ n \in OnSomeList(mem)
    /\ h \in Inited
    /\ TwoListsResult(IF tail THEN "prlist_move_tail" ELSE "prlist_move", n, h,
                      IF tail THEN prlist_move_tail(areas, ListSt(mem), n, h)
                      ELSE prlist_move(areas, ListSt(mem), n, h))
    /\ UNCHANGED hist

\* callers replace an entry of a list by a node that is on no list
ListReplace(old, new) ==
    /\ old \in OnSomeList(mem)
    /\ new \in ListNodes \ OnSomeList(mem)
    /\ TwoListsResult("prlist_replace", new, old,
                      prlist_replace(areas, ListSt(mem), old, new))
    /\ UNCHANGED hist

ListSpliceInit(list, head) ==
    /\ list \in Inited /\ head \in Inited /\ list # head
    /\ TwoListsResult("prlist_splice_init", list, head,
                      prlist_splice_init(areas, ListSt(mem), list, head))
    /\ UNCHANGED hist

\* ------------------------ include/linux/prlist.h: protected hash lists
\* A union prhlist_head is one pointer, first; a union prhlist_node is two,
\* next then pprev, the address of the pointer that points at the node.
AddrFirst(head) == head
AddrPprev(node) == node + PTR_SIZE

first_of(m, head) == LoadPtr(m, AddrFirst(head))
pprev_of(m, node) == LoadPtr(m, AddrPprev(node))

prhlist_set_first(ar, st, head, first) == wr_link(ar, st, AddrFirst(head), first)

prhlist_set_next(ar, st, node, next) == wr_link(ar, st, AddrNext(node), next)

prhlist_set_pprev(ar, st, node, pprev) == wr_link(ar, st, AddrPprev(node), pprev)

prhlist_set_prev(ar, st, node, prev) == wr_link(ar, st, pprev_of(st.mem, node), prev)

\* __prhlist_del() that leaves the back-link of the successor alone
__prhlist_del_keeps_pprev(ar, st, n) ==
    wr_link(ar, st, pprev_of(st.mem, n), next_of(st.mem, n))

__prhlist_del(ar, st, n) ==
    LET next == next_of(st.mem, n)
        pprev == pprev_of(st.mem, n)
        s1 == wr_link(ar, st, pprev, next)
    IN  IF next # NULL THEN prhlist_set_pprev(ar, s1, next, pprev) ELSE s1

prhlist_del(ar, st, n) ==
    LET s1 == __prhlist_del(ar, st, n)
        s2 == prhlist_set_next(ar, s1, n, LIST_POISON1)
    IN  prhlist_set_pprev(ar, s2, n, LIST_POISON2)

prhlist_add_head(ar, st, n, h) ==
    LET first == first_of(st.mem, h)
        s1 == prhlist_set_next(ar, st, n, first)
        s2 == IF first # NULL THEN prhlist_set_pprev(ar, s1, first, AddrNext(n))
              ELSE s1
        s3 == prhlist_set_first(ar, s2, h, n)
    IN  prhlist_set_pprev(ar, s3, n, AddrFirst(h))

\* next must be # NULL
prhlist_add_before(ar, st, n, next) ==
    LET s1 == prhlist_set_pprev(ar, st, n, pprev_of(st.mem, next))
        s2 == prhlist_set_next(ar, s1, n, next)
        s3 == prhlist_set_pprev(ar, s2, next, AddrNext(n))
    IN  prhlist_set_prev(ar, s3, n, n)

\* prhlist_add_behind() that does not give the old successor its new back-link
prhlist_add_behind_one_way(ar, st, n, prev) ==
    LET s1 == prhlist_set_next(ar, st, n, next_of(st.mem, prev))
        s2 == prhlist_set_next(ar, s1, prev, n)
    IN  prhlist_set_pprev(ar, s2, n, AddrNext(prev))

prhlist_add_behind(ar, st, n, prev) ==
    LET s1 == prhlist_set_next(ar, st, n, next_of(st.mem, prev))
        s2 == prhlist_set_next(ar, s1, prev, n)
        s3 == prhlist_set_pprev(ar, s2, n, AddrNext(prev))
    IN  IF next_of(s3.mem, n) # NULL
        THEN prhlist_set_pprev(ar, s3, next_of(s3.mem, n), AddrNext(n))
        ELSE s3

\* the chain of a bucket: the nodes visited from head.first along next
\* before the walk reaches NULL or leaves the nodes
RECURSIVE ChainFrom(_, _, _)
ChainFrom(m, at, fuel) ==
    IF at \notin ListNodes \/ fuel = 0 THEN <<>>
    ELSE <<at>> \o ChainFrom(m, next_of(m, at), fuel - 1)

Chain(m, head) == ChainFrom(m, first_of(m, head), MaxNodes + 1)

\* the bucket of lib/test_prlist.c: a static __wr_after_init head,
\* initialised empty, and nodes from a pool made by prhlist_create_pool()
InitHlist ==
    /\ areas = ListGrown.areas
    /\ pools = [p \in PoolIds |-> IF p = ListPool THEN ListGrown.pool ELSE NoPool]
    /\ mem = Store(InitMem, AddrFirst(ListHead), PtrBytes(NULL))
    /\ allocs = ListChunk .. (ListChunk + MaxNodes * NODE_SIZE - 1)
    /\ hist = [p \in PoolIds |->
                 IF p = ListPool
                 THEN [created_mode |-> PMALLOC_START_WR, explicit |-> FALSE,
                       made_ro |-> FALSE, snap |-> {}]
                 ELSE NoHist]
    /\ nwr = 0
    /\ last = NoCall
    /\ thr = [t \in Threads |-> Idle]
    /\ mutex = [p \in PoolIds |-> 0]
    /\ arch = ArchBoot("generic")

HlistResult(name, n, at, st) ==
    /\ mem' = st.mem
    /\ last' = [op |-> name, node |-> n, at |-> at, log |-> st.log]
    /\ UNCHANGED <<arch, areas, pools, allocs, hist, nwr, thr, mutex>>

\* callers add a node that is on no chain, next to one that is on the chain
PrhlistAddHead(n) ==
    /\ ListIdle /\ n \notin SeqSet(Chain(mem, ListHead))
    /\ HlistResult("prhlist_add_head", n, ListHead,
                   prhlist_add_head(areas, ListSt(mem), n, ListHead))

PrhlistAddBefore(n, next) ==
    /\ ListIdle /\ n \notin SeqSet(Chain(mem, ListHead))
    /\ next \in SeqSet(Chain(mem, ListHead))
    /\ HlistResult("prhlist_add_before", n, next,
                   prhlist_add_before(areas, ListSt(mem), n, next))

PrhlistAddBehind(n, prev) ==
    /\ ListIdle /\ n \notin SeqSet(Chain(mem, ListHead))
    /\ prev \in SeqSet(Chain(mem, ListHead))
    /\ HlistResult("prhlist_add_behind", n, prev,
                   prhlist_add_behind(areas, ListSt(mem), n, prev))

PrhlistDel(n) ==
    /\ ListIdle /\ n \in SeqSet(Chain(mem, ListHead))
    /\ HlistResult("prhlist_del", n, NULL, prhlist_del(areas, ListSt(mem), n))

\* test_teardown_prhlist() on a bucket that is not empty: the loop deletes
\* *pnode, pnode being &head.first->next, until that is NULL, one iteration
\* at a time; then the first node is deleted
HTeardownStart(t) ==
    /\ ListIdle /\ first_of(mem, ListHead) # NULL
    /\ thr' = [thr EXCEPT ![t] = [pc |-> "hteardown",
                                  pnode |-> AddrNext(first_of(mem, ListHead)),
                                  initial |-> Chain(mem, ListHead),
                                  removed |-> <<>>, consistent |-> TRUE]]
    /\ UNCHANGED <<arch, areas, pools, mem, allocs, hist, nwr, last, mutex>>

HTeardownStep(t) ==
    /\ thr[t].pc = "hteardown"
    /\ LET n == LoadPtr(mem, thr[t].pnode) IN
       IF n # NULL
       THEN /\ mem' = prhlist_del(areas, ListSt(mem), n).mem
            /\ thr' = [thr EXCEPT ![t].removed = Append(@, n),
                                  ![t].consistent =
                                      @ /\ LoadPtr(mem, pprev_of(mem, n)) = n]
            /\ UNCHANGED <<arch, areas, pools, allocs, hist, nwr, last, mutex>>
       ELSE LET first == first_of(mem, ListHead) IN
            /\ mem' = prhlist_del(areas, ListSt(mem), first).mem
            /\ thr' = [thr EXCEPT ![t] = Idle]
            /\ last' = [op |-> "hteardown", initial |-> thr[t].initial,
                        removed |-> Append(thr[t].removed, first),
                        consistent |-> thr[t].consistent]
            /\ UNCHANGED <<arch, areas, pools, allocs, hist, nwr, mutex>>

\* ------------- include/linux/prlist.h: the lock-free (RCU) variants
\* These run while readers walk the list, so they are modelled one store at
\* a time.  The arguments of every store are values the function has read
\* before its first store; a function is the sequence of its stores, each
\* with the way it is issued: via "wr_ptr" or "wr_rcu_assign_pointer"
\* through the write-rare engine, via "store" by a plain store instruction.

\* A plain store of a pointer to dst.  It faults, and the kernel kills the
\* thread, unless dst lies in a page that is mapped writable: the static
\* sections are read-only after init, a pmalloc area once it is protected.
plain_store(ar, m, dst, val) ==
    LET a == IF is_vmalloc_addr(dst) THEN AreaOf(ar, dst) ELSE NULL IN
    IF a # NULL /\ ~ar[a].ro
    THEN [mem |-> Store(m, dst, PtrBytes(val)), fault |-> FALSE]
    ELSE [mem |-> m, fault |-> TRUE]

\* __prlist_add_rcu() that publishes new before new has its links
__prlist_add_rcu_publish_first(new, prev, next) ==
    << [dst |-> AddrNext(prev), val |-> new, via |-> "wr_rcu_assign_pointer"],
       [dst |-> AddrNext(new), val |-> next, via |-> "wr_ptr"],
       [dst |-> AddrPrev(new), val |-> prev, via |-> "wr_ptr"],
       [dst |-> AddrPrev(next), val |-> new, via |-> "wr_ptr"] >>

__prlist_add_rcu(new, prev, next) ==
    << [dst |-> AddrNext(new), val |-> next, via |-> "wr_ptr"],
       [dst |-> AddrPrev(new), val |-> prev, via |-> "wr_ptr"],
       [dst |-> AddrNext(prev), val |-> new, via |-> "wr_rcu_assign_pointer"],
       [dst |-> AddrPrev(next), val |-> new, via |-> "wr_ptr"] >>

\* prlist_del_rcu(entry): __list_del_entry(entry) of linux/list.h, which is
\* next->prev = prev; WRITE_ONCE(prev->next, next) when the entry is valid,
\* then entry->prev = LIST_POISON2
prlist_del_rcu(entry, prev, next, valid) ==
    (IF valid
     THEN << [dst |-> AddrPrev(next), val |-> prev, via |-> "store"],
             [dst |-> AddrNext(prev), val |-> next, via |-> "store"] >>
     ELSE <<>>)
    \o << [dst |-> AddrPrev(entry), val |-> LIST_POISON2, via |-> "store"] >>

link_store(ar, m, s) ==
    IF s.via = "wr_ptr"
    THEN [mem |-> wr_ptr(ar, m, s.dst, s.val, 0).mem, fault |-> FALSE]
    ELSE IF s.via = "wr_rcu_assign_pointer"
    THEN [mem |-> __wr_rcu_ptr(ar, m, s.dst, s.val, 0).mem, fault |-> FALSE]
    ELSE plain_store(ar, m, s.dst, s.val)

\* the walk along next from at comes back to head
RECURSIVE ReturnsFrom(_, _, _, _)
ReturnsFrom(m, head, at, fuel) ==
    \/ at = head
    \/ /\ at \in ListNodes /\ fuel > 0
       /\ ReturnsFrom(m, head, next_of(m, at), fuel - 1)

Returns(m, head, at) == ReturnsFrom(m, head, at, MaxNodes + 1)

\* The nodes come from the start-write-rare pool of prlist_create_pool(),
\* protected from the start, or from a write-rare pool that the caller has
\* not protected yet.
InitRcu ==
    /\ \E g \in {ListGrown, ListGrownMode({"PMALLOC_WR"})} :
          /\ areas = g.areas
          /\ pools = [p \in PoolIds |-> IF p = ListPool THEN g.pool ELSE NoPool]
          /\ hist = [p \in PoolIds |->
                       IF p = ListPool
                       THEN [created_mode |-> g.pool.mode, explicit |-> FALSE,
                             made_ro |-> FALSE, snap |-> {}]
                       ELSE NoHist]
    /\ mem = Store(Store(InitMem, AddrNext(ListHead), PtrBytes(ListHead)),
                   AddrPrev(ListHead), PtrBytes(ListHead))
    /\ allocs = ListChunk .. (ListChunk + MaxNodes * NODE_SIZE - 1)
    /\ nwr = 0
    /\ last = NoCall
    /\ thr = [t \in Threads |-> Idle]
    /\ mutex = [p \in PoolIds |-> 0]
    /\ arch = ArchBoot("generic")

\* no reader still holds a reference to node n (a grace period has elapsed
\* since n was removed)
Quiescent(n) == \A u \in Threads : thr[u].pc = "rd" => thr[u].at # n

\* prlist_add_rcu(new, head) and prlist_add_tail_rcu(new, head), up to the
\* first store; the caller excludes other writers
RcuAddCall(t, new, tail) ==
    /\ \A u \in Threads : thr[u].pc # "wr"
    /\ thr[t] = Idle
    /\ new \notin SeqSet(Forward(mem, ListHead)) /\ Quiescent(new)
    /\ LET prev == IF tail THEN prev_of(mem, ListHead) ELSE ListHead
           next == IF tail THEN ListHead ELSE next_of(mem, ListHead)
       IN  /\ __list_add_valid(mem, new, prev, next)
           /\ thr' = [thr EXCEPT ![t] =
                        [pc |-> "wr",
                         fn |-> IF tail THEN "prlist_add_tail_rcu"
                                ELSE "prlist_add_rcu",
                         node |-> new, prev |-> prev, next |-> next,
                         old |-> Forward(mem, ListHead),
                         stores |-> __prlist_add_rcu(new, prev, next), k |-> 1]]
    /\ UNCHANGED <<arch, areas, pools, mem, allocs, hist, nwr, last, mutex>>

\* prlist_del_rcu(entry), up to the first store
RcuDelCall(t, entry) ==
    /\ \A u \in Threads : thr[u].pc # "wr"
    /\ thr[t] = Idle
    /\ entry \in SeqSet(Forward(mem, ListHead))
    /\ LET prev == prev_of(mem, entry)
           next == next_of(mem, entry)
       IN  thr' = [thr EXCEPT ![t] =
                     [pc |-> "wr", fn |-> "prlist_del_rcu",
                      node |-> entry, prev |-> prev, next |-> next,
                      old |-> Forward(mem, ListHead),
                      stores |-> prlist_del_rcu(entry, prev, next,
                                     __list_del_entry_valid(mem, entry)),
                      k |-> 1]]
    /\ UNCHANGED <<arch, areas, pools, mem, allocs, hist, nwr, last, mutex>>

\* the next store of the function a writer is in; the call ends with its
\* last store, or with the oops of a store that faults
WriterStore(t) ==
    /\ thr[t].pc = "wr"
    /\ LET w == thr[t]
           s == w.stores[w.k]
           r == link_store(areas, mem, s)
           ended == r.fault \/ w.k = Len(w.stores)
       IN  /\ mem' = r.mem
           /\ thr' = [thr EXCEPT ![t] = IF ended THEN Idle
                                        ELSE [w EXCEPT !.k = @ + 1]]
           /\ last' = [op |-> w.fn, node |-> w.node, prev |-> w.prev,
                       next |-> w.next, k |-> w.k, dst |-> s.dst,
                       val |-> s.val, via |-> s.via, fault |-> r.fault,
                       ended |-> ended]
    /\ UNCHANGED <<arch, areas, pools, allocs, hist, nwr, mutex>>

\* list_for_each_entry_rcu(): pos = head->next
ReaderStart(t) ==
    /\ thr[t] = Idle
    /\ thr' = [thr EXCEPT ![t] = [pc |-> "rd", at |-> next_of(mem, ListHead)]]
    /\ UNCHANGED <<arch, areas, pools, mem, allocs, hist, nwr, last, mutex>>

\* one evaluation of pos != head and of pos = pos->next; a pos that is no
\* node cannot be followed
ReaderStep(t) ==
    /\ thr[t].pc = "rd"
    /\ thr' = [thr EXCEPT ![t] =
                 IF thr[t].at = ListHead THEN Idle
                 ELSE IF thr[t].at \in ListNodes
                 THEN [pc |-> "rd", at |-> next_of(mem, thr[t].at)]
                 ELSE [pc |-> "lost", at |-> thr[t].at]]
    /\ UNCHANGED <<arch, areas, pools, mem, allocs, hist, nwr, last, mutex>>

\* ------------------- mm/pmalloc.c: pmalloc on top of genalloc pools
\* A gen_pool is its chunks, each [start_addr, size, used], with the
\* protected flag of its struct pmalloc_data.  Nothing is ever freed, so the
\* first fit of gen_pool_alloc() is the first chunk with room after its
\* used part; the pool is created with min_alloc_order 0.
GenPool == [chunks |-> <<>>, protected |-> FALSE]

\* gen_pool_alloc(pool, size): [addr, pool], addr = 0 when size is 0 or no
\* chunk has room
gen_pool_alloc(pool, size) ==
    LET fit == { i \in DOMAIN pool.chunks :
                   pool.chunks[i].size - pool.chunks[i].used >= size }
    IN  IF size = 0 \/ fit = {} THEN [addr |-> 0, pool |-> pool]
        ELSE LET i == CHOOSE j \in fit : \A k \in fit : j <= k
             IN  [addr |-> pool.chunks[i].start_addr + pool.chunks[i].used,
                  pool |-> [pool EXCEPT !.chunks[i].used = @ + size]]

\* pmalloc_expand_pool(pool, size): [areas, pool, ret]; vm_ok: vmalloc() has
\* memory, add_ok: gen_pool_add() can allocate its chunk descriptor
pmalloc_expand_pool(ar, pool, p, size, vm_ok, add_ok) ==
    LET chunk_size == PAGE_ALIGN(size)
        chunk == vmalloc(ar, chunk_size, vm_ok)
    IN  IF chunk = NULL \/ ~add_ok THEN [areas |-> ar, pool |-> pool, ret |-> FALSE]
        ELSE [areas |-> [x \in DOMAIN ar \cup {chunk} |->
                           IF x = chunk
                           THEN [NewArea(chunk_size) EXCEPT
                                   !.flags = @ \cup {"VM_PMALLOC"}, !.pool = p]
                           ELSE ar[x]],
              pool |-> [pool EXCEPT !.chunks =
                          Append(@, [start_addr |-> chunk, size |-> chunk_size,
                                     used |-> 0])],
              ret |-> TRUE]

GpReturn(t, ret, iter) ==
    /\ last' = [op |-> "pmalloc", size |-> thr[t].size, gfp |-> thr[t].gfp,
                ret |-> ret, iter |-> iter]
    /\ thr' = [thr EXCEPT ![t] = Idle]

\* pmalloc(pool, size, gfp) up to its loop
GpPmalloc(t, p, size, gfp) ==
    /\ thr[t].pc = "idle"
    /\ IF pools[p].protected
       THEN /\ last' = [op |-> "pmalloc", size |-> size, gfp |-> gfp,
                        ret |-> NULL, iter |-> 0]
            /\ UNCHANGED thr
       ELSE /\ thr' = [thr EXCEPT ![t] = [pc |-> "pmalloc_loop", pool |-> p,
                                          size |-> size, gfp |-> gfp, iter |-> 0]]
            /\ UNCHANGED last
    /\ UNCHANGED <<arch, areas, pools, mem, allocs, hist, nwr, mutex>>

\* one iteration of the while (true) loop of pmalloc()
GpPmallocIter(t, vm_ok, add_ok) ==
    /\ thr[t].pc = "pmalloc_loop"
    /\ thr[t].iter < MaxRetries
    /\ LET p == thr[t].pool
           size == thr[t].size
           gfp == thr[t].gfp
           a == gen_pool_alloc(pools[p], size)
           e == pmalloc_expand_pool(areas, pools[p], p, size, vm_ok, add_ok)
           again == thr' = [thr EXCEPT ![t].iter = @ + 1]
       IN  IF a.addr # 0
           THEN /\ pools' = [pools EXCEPT ![p] = a.pool]
                /\ mem' = IF "__GFP_ZERO" \in gfp
                          THEN Store(mem, a.addr, [i \in 1 .. size |-> 0])
                          ELSE mem
                /\ allocs' = allocs \cup (a.addr .. (a.addr + size - 1))
                /\ GpReturn(t, a.addr, thr[t].iter)
                /\ UNCHANGED <<arch, areas, hist, nwr, mutex>>
           ELSE IF "__GFP_ATOMIC" \notin gfp
           THEN /\ areas' = e.areas
                /\ pools' = [pools EXCEPT ![p] = e.pool]
                /\ IF e.ret \/ "__GFP_NOFAIL" \in gfp
                   THEN again /\ UNCHANGED last
                   ELSE GpReturn(t, NULL, thr[t].iter)
                /\ UNCHANGED <<arch, mem, allocs, hist, nwr, mutex>>
           ELSE /\ IF "__GFP_NOFAIL" \notin gfp
                   THEN GpReturn(t, NULL, thr[t].iter)
                   ELSE again /\ UNCHANGED last
                /\ UNCHANGED <<arch, areas, pools, mem, allocs, hist, nwr, mutex>>

\* pmalloc_protect_pool(pool): pmalloc_pool_set_protection(pool, true)
GpProtect(p) ==
    /\ \A t \in Threads : thr[t] = Idle
    /\ ~pools[p].protected
    /\ pools' = [pools EXCEPT ![p].protected = TRUE]
    /\ areas' = [a \in DOMAIN areas |->
                   IF \E i \in DOMAIN pools[p].chunks : pools[p].chunks[i].start_addr = a
                   THEN [areas[a] EXCEPT !.ro = TRUE] ELSE areas[a]]
    /\ last' = [op |-> "pmalloc_protect_pool", size |-> 0, gfp |-> {}, ret |-> 0,
                iter |-> 0]
    /\ UNCHANGED <<arch, mem, allocs, hist, nwr, thr, mutex>>

\* ------------------- include/linux/pratomic-long.h: write-rare counters
\* A struct pratomic_long_t is one long, of the size of a pointer, aligned to
\* its size.  __pratomic_long_op(inc, l): vmap_ok says whether vmap() has
\* memory; page is the value the local variable page happens to hold when it
\* is read without having been assigned, which is the case for every target
\* that is not in the static section (the result of vmalloc_to_page(l) is
\* dropped).  atomic_long_inc/dec wrap around.
__pratomic_long_op(ar, m, inc, l, vmap_ok, page) ==
    LET size == PTR_SIZE
        is_virt == __is_wr_after_init(l, size)
    IN  IF ~(is_virt \/ __is_wr_pool(ar, l, size)) THEN [mem |-> m, ret |-> FALSE]
        ELSE LET pg == IF is_virt THEN round_down(l, PAGE_SIZE) ELSE page
                 offset == l % PAGE_SIZE
                 base_ok == pg # NULL /\ vmap_ok
                 val == LoadPtr(m, pg + offset)
             IN  IF ~base_ok THEN [mem |-> m, ret |-> FALSE]
                 ELSE [mem |-> Store(m, pg + offset,
                                     PtrBytes(ulong(IF inc THEN val + 1
                                                    ELSE val + ULONG_MAX))),
                       ret |-> TRUE]

pratomic_long_inc(ar, m, l, vmap_ok, page) ==
    __pratomic_long_op(ar, m, TRUE, l, vmap_ok, page)

pratomic_long_dec(ar, m, l, vmap_ok, page) ==
    __pratomic_long_op(ar, m, FALSE, l, vmap_ok, page)

PratomicLong(inc, l, vmap_ok, page) ==
    /\ nwr < MaxOps
    /\ LET r == IF inc THEN pratomic_long_inc(areas, mem, l, vmap_ok, page)
                ELSE pratomic_long_dec(areas, mem, l, vmap_ok, page)
       IN  /\ mem' = r.mem
           /\ last' = [op |-> IF inc THEN "pratomic_long_inc" ELSE "pratomic_long_dec",
                       dst |-> l, ret |-> r.ret]
    /\ nwr' = nwr + 1
    /\ UNCHANGED <<arch, areas, pools, allocs, hist, thr, mutex>>

\* The thread that writes, and a second one that only reads.
Writer == CHOOSE t \in Threads : \A u \in Threads : t <= u
Reader == Writer + 1

\* --------------------- arch/*/mm/prmem.c: the secondary-mapping backends
\* The pages of the static write-rare section.
StaticPageSet == { __start_wr_after_init + i * PAGE_SIZE : i \in 0 .. StaticPages - 1 }

\* enum wr_op_type
WR_MEMCPY == 0
WR_MEMSET == 1
WR_OPS_NUMBER == 2

\* The primitives of linux/irqflags.h and linux/mmu_context.h, as they act on
\* the processor; every other call leaves it alone.
ArchStep(a, call) ==
    CASE call = "local_irq_save" -> [a EXCEPT !.flags = a.irqs, !.irqs = FALSE]
      [] call = "local_irq_restore" -> [a EXCEPT !.irqs = a.flags]
      [] call = "local_irq_disable" -> [a EXCEPT !.irqs = FALSE]
      [] call = "local_irq_enable" -> [a EXCEPT !.irqs = TRUE]
      [] call = "use_temporary_mm" ->
            [a EXCEPT !.prev = a.active_mm, !.active_mm = "wr_mm"]
      [] call = "unuse_temporary_mm" -> [a EXCEPT !.active_mm = a.prev]
      [] OTHER -> a

RECURSIVE ArchRun(_, _)
ArchRun(a, calls) ==
    IF calls = <<>> THEN a ELSE ArchRun(ArchStep(a, Head(calls)), Tail(calls))

\* is_wr_after_init() of arch/x86/mm/prmem.c
is_wr_after_init(ptr, size) ==
    LET start == __start_wr_after_init
        end == __end_wr_after_init
        low == ptr
        high == ulong(ptr + size)
    IN  start <= low /\ low <= high /\ high <= end

\* __wr_op(dst, src, len, op): the bytes go to wr_poking_base + dst, the alias
\* of dst in wr_poking_mm.  calls lists the calls made, in program order.
__wr_op(a, m, dst, src, len, op) ==
    IF ~a.wr_ready
    THEN [mem |-> m, ret |-> dst, calls |-> <<"WARN_ONCE">>]
    ELSE IF op >= WR_OPS_NUMBER \/ ~is_wr_after_init(dst, len)
    THEN [mem |-> m, ret |-> dst, calls |-> <<"WARN_ONCE">>]
    ELSE LET bytes == IF op = WR_MEMCPY THEN Bytes(m, src, len)
                      ELSE [i \in 1 .. len |-> src % 256]
         IN  [mem |-> Store(m, dst, bytes), ret |-> dst,
              calls |-> <<"local_irq_disable", "use_temporary_mm",
                          IF op = WR_MEMCPY THEN "copy_to_user" ELSE "memset_user",
                          "unuse_temporary_mm", "local_irq_enable">>]

\* How bring-up can fail: copy_init_mm() returns NULL, or virt_to_page() or
\* get_locked_pte() returns NULL for the page number `at' of the section.
NoFailure == [what |-> "none", at |-> 0]
InitFailures ==
    {NoFailure, [what |-> "mm", at |-> 0]} \cup
    { [what |-> w, at |-> k] : w \in {"page", "pte"}, k \in 0 .. StaticPages - 1 }

\* The pages the mapping loop has entered into the secondary mm when it stops.
MappedBefore(fail) ==
    IF fail.what = "none" THEN StaticPageSet
    ELSE { p \in StaticPageSet : p < __start_wr_after_init + fail.at * PAGE_SIZE }

\* wr_poking_init() of arch/x86/mm/prmem.c: every failure is a WARN_ONCE and
\* a return
wr_poking_init(a, fail) ==
    IF fail.what = "mm" THEN [a EXCEPT !.inited = TRUE]
    ELSE [a EXCEPT !.inited = TRUE, !.wr_mm = TRUE, !.mapped = MappedBefore(fail),
                   !.wr_ready = (fail.what = "none")]

\* __wr_map_address() of arch/arm64/mm/prmem.c
__wr_map_address(addr, fail) ==
    ~(fail.what \in {"page", "pte"} /\
      addr = __start_wr_after_init + fail.at * PAGE_SIZE)

\* wr_init() of arch/arm64/mm/prmem.c: BUG_ON(!wr_mm), then BUG_ON for the
\* first page that cannot be mapped.  arm64 keeps no wr_ready flag.
wr_init(a, fail) ==
    IF fail.what = "mm" THEN [a EXCEPT !.inited = TRUE, !.halted = TRUE]
    ELSE LET bad == { p \in StaticPageSet : ~__wr_map_address(p, fail) }
         IN  [a EXCEPT !.inited = TRUE, !.wr_mm = TRUE,
                       !.mapped = { p \in StaticPageSet : \A b \in bad : p < b },
                       !.wr_ready = (bad = {}),
                       !.halted = (bad # {})]

\* __wr_enable(state) and __wr_disable(state) of arch/arm64/mm/prmem.c
__wr_enable(a) == ArchRun(a, <<"lockdep_assert_irqs_disabled", "use_temporary_mm">>)
__wr_disable(a) == ArchRun(a, <<"lockdep_assert_irqs_disabled", "unuse_temporary_mm">>)

\* The calls of one wr_memcpy()/wr_memset() of include/linux/prmem.h, in
\* program order: one group per page segment.
RECURSIVE wr_calls(_, _, _, _, _, _)
wr_calls(ar, d, n_bytes, is_virt, fail_at, store) ==
    IF n_bytes = 0 THEN <<>>
    ELSE LET page_ok == is_virt \/ AreaOf(ar, d) # NULL
             offset == d % PAGE_SIZE
             offset_complement == PAGE_SIZE - offset
             size == Min(IntCast(n_bytes), IntCast(offset_complement))
             base_ok == page_ok /\ fail_at # 1
             lookup == IF is_virt THEN "virt_to_page" ELSE "vmalloc_to_page"
         IN  IF ~base_ok
             THEN <<"local_irq_save", lookup, "vmap", "WARN", "local_irq_restore">>
             ELSE <<"local_irq_save", lookup, "vmap", store, "vunmap",
                    "local_irq_restore">>
                  \o wr_calls(ar, d + size, n_bytes - size, is_virt,
                              IF fail_at = 0 THEN 0 ELSE fail_at - 1, store)

\* The calls of a whole wr_memcpy() or wr_memset().
wr_entry_calls(ar, dst, n_bytes, fail_at, store) ==
    LET is_virt == __is_wr_after_init(dst, n_bytes) IN
    IF ~(is_virt \/ __is_wr_pool(ar, dst, n_bytes)) THEN <<"WARN">>
    ELSE wr_calls(ar, dst, n_bytes, is_virt, fail_at, store)

\* ---- the backends as actions
ArchResult(name, dst, len, ret, calls, a) ==
    /\ arch' = a
    /\ last' = [op |-> name, dst |-> dst, n |-> len, ret |-> ret, calls |-> calls,
                irqs_in |-> arch.irqs, mm_in |-> arch.active_mm,
                irqs_out |-> a.irqs, mm_out |-> a.active_mm]

Running(platform) == arch.platform = platform /\ ~arch.halted

\* the caller's own local_irq_disable() / local_irq_enable()
CallerIrq(on) ==
    /\ ~arch.halted
    /\ arch.active_mm = "init_mm"
    /\ arch.irqs # on
    /\ arch' = [arch EXCEPT !.irqs = on]
    /\ UNCHANGED <<areas, pools, mem, allocs, hist, nwr, last, thr, mutex>>

X86Init(fail) ==
    /\ Running("x86") /\ ~arch.inited
    /\ ArchResult("wr_poking_init", 0, 0, 0, <<>>, wr_poking_init(arch, fail))
    /\ UNCHANGED <<areas, pools, mem, allocs, hist, nwr, thr, mutex>>

Arm64Init(fail) ==
    /\ Running("arm64") /\ ~arch.inited
    /\ ArchResult("wr_init", 0, 0, 0, <<>>, wr_init(arch, fail))
    /\ UNCHANGED <<areas, pools, mem, allocs, hist, nwr, thr, mutex>>

X86WrOp(dst, src, len, op) ==
    /\ Running("x86")
    /\ LET r == __wr_op(arch, mem, dst, src, len, op)
       IN  /\ mem' = r.mem
           /\ ArchResult("__wr_op", dst, len, r.ret, r.calls, ArchRun(arch, r.calls))
    /\ UNCHANGED <<areas, pools, allocs, hist, nwr, thr, mutex>>

Arm64WrEnable ==
    /\ Running("arm64") /\ arch.inited
    /\ arch.active_mm = "init_mm"
    /\ ArchResult("__wr_enable", 0, 0, 0,
                  <<"lockdep_assert_irqs_disabled", "use_temporary_mm">>,
                  __wr_enable(arch))
    /\ UNCHANGED <<areas, pools, mem, allocs, hist, nwr, thr, mutex>>

\* a store through the section's alias while the secondary mm is active
Arm64Store(dst, val) ==
    /\ Running("arm64")
    /\ arch.active_mm = "wr_mm"
    /\ round_down(dst, PAGE_SIZE) \in arch.mapped
    /\ mem' = Store(mem, dst, <<val>>)
    /\ UNCHANGED <<arch, areas, pools, allocs, hist, nwr, last, thr, mutex>>

\* __wr_disable() ends the call that __wr_enable() began
Arm64WrDisable ==
    /\ Running("arm64")
    /\ arch.active_mm = "wr_mm"
    /\ LET a == __wr_disable(arch)
       IN  /\ arch' = a
           /\ last' = [last EXCEPT !.op = "__wr_disable",
                          !.calls = @ \o <<"lockdep_assert_irqs_disabled",
                                           "unuse_temporary_mm">>,
                          !.irqs_out = a.irqs, !.mm_out = a.active_mm]
    /\ UNCHANGED <<areas, pools, mem, allocs, hist, nwr, thr, mutex>>

\* wr_memcpy() / wr_memset() of include/linux/prmem.h on this processor
GenericWr(name, dst, arg, n, fail_at) ==
    /\ Running("generic")
    /\ nwr < MaxWrites
    /\ LET r == IF name = "wr_memcpy"
                THEN wr_memcpy(areas, mem, dst, Bytes(mem, arg, n), n, fail_at)
                ELSE wr_memset(areas, mem, dst, arg, n, fail_at)
           calls == wr_entry_calls(areas, dst, n, fail_at,
                       IF name = "wr_memcpy" THEN "__write_once_size" ELSE "memset")
       IN  /\ mem' = r.mem
           /\ ArchResult(name, dst, n, r.ret, calls, ArchRun(arch, calls))
    /\ nwr' = nwr + 1
    /\ UNCHANGED <<areas, pools, allocs, hist, thr, mutex>>

\* ------------- the page-segment arithmetic of the write-rare loops
\* One iteration of the while (n_bytes) loop of wr_memcpy(), wr_memset() and
\* __raw_rare_write(), with the widths of the C types: n_bytes, size and
\* offset_complement are size_t, min() is taken over their (int) values and
\* its result is converted back to size_t.
wr_segment(d, n_bytes) ==
    LET offset == d % PAGE_SIZE
        offset_complement == PAGE_SIZE - offset
        size == ulong(Min(IntCast(n_bytes), IntCast(offset_complement))
                      + ULONG_MAX + 1)
    IN  [offset |-> offset, size |-> size, d |-> ulong(d + size),
         n_bytes |-> ulong(n_bytes - size + ULONG_MAX + 1)]

\* the loop, one iteration at a time, in thread Writer
SegCall(d, n_bytes) ==
    /\ thr[Writer].pc = "idle"
    /\ thr' = [thr EXCEPT ![Writer] =
                 [pc |-> "wr_loop", d |-> d, n_bytes |-> n_bytes, n0 |-> n_bytes,
                  offset |-> 0, size |-> 0, sum |-> 0]]
    /\ UNCHANGED <<arch, areas, pools, mem, allocs, hist, nwr, last, mutex>>

SegStep ==
    /\ thr[Writer].pc = "wr_loop"
    /\ thr[Writer].n_bytes # 0
    /\ LET r == wr_segment(thr[Writer].d, thr[Writer].n_bytes)
       IN  thr' = [thr EXCEPT ![Writer].d = r.d, ![Writer].n_bytes = r.n_bytes,
                              ![Writer].offset = r.offset, ![Writer].size = r.size,
                              ![Writer].sum = @ + r.size]
    /\ UNCHANGED <<arch, areas, pools, mem, allocs, hist, nwr, last, mutex>>

SegReturn ==
    /\ thr[Writer].pc = "wr_loop"
    /\ thr[Writer].n_bytes = 0
    /\ last' = [op |-> "wr_loop", n |-> thr[Writer].n0, sum |-> thr[Writer].sum,
                ret |-> TRUE]
    /\ thr' = [thr EXCEPT ![Writer] = Idle]
    /\ UNCHANGED <<arch, areas, pools, mem, allocs, hist, nwr, mutex>>

\* --------------------------------------------------------- specifications
Refills == {0}
AlignOrders == {-1, 0}
Modes == { m \in SUBSET PMALLOC_MASK : "PMALLOC_START" \in m => "PMALLOC_WR" \in m }
Sizes == {0, 1, PAGE_SIZE, PAGE_SIZE + 1}

Next ==
    \/ \E refill \in Refills, align_order \in AlignOrders, mode \in Modes :
         pmalloc_create_custom_pool(OnePool, refill, align_order, mode)
    \/ \E p \in OnePool, size \in Sizes, vm_ok \in BOOLEAN : pmalloc(p, size, vm_ok)
    \/ \E p \in OnePool : pmalloc_protect_pool(p)
    \/ \E p \in OnePool : pmalloc_make_pool_ro(p)
    \/ \E p \in OnePool : pmalloc_destroy_pool(p)

Spec == Init /\ [][Next]_vars

\* The write-rare engine, with the pool operations on one pool.  The vmalloc
\* space holds one more ordinary area from the start, which leaves room for
\* FreePagesWr pages of chunks.
FreePagesWr == 3
FillerArea == OldChunk + 2 * PAGE_SIZE

InitWr ==
    /\ areas = [a \in {OtherArea, OldChunk, FillerArea} |->
                 IF a = FillerArea
                 THEN NewArea((VmallocPages - FreePagesWr - 5) * PAGE_SIZE)
                 ELSE InitAreas[a]]
    /\ pools = InitPools
    /\ mem = InitMem
    /\ allocs = OldChunk .. (OldChunk + PAGE_SIZE - 1)
    /\ hist = InitHist
    /\ nwr = 0
    /\ last = NoCall
    /\ thr = [t \in Threads |-> Idle]
    /\ mutex = [p \in PoolIds |-> 0]
    /\ arch = ArchBoot("generic")

SrcAddrs == {RODATA_START}
FillBytes == {257}
PtrVals == {NULL, RODATA_START + 256}
FailAts == 0 .. 2
SizesWr == {1, PAGE_SIZE + 1}

NextWr ==
    \/ \E mode \in Modes : pmalloc_create_custom_pool(OnePool, 0, 0, mode)
    \/ \E p \in OnePool, size \in SizesWr, vm_ok \in BOOLEAN : pmalloc(p, size, vm_ok)
    \/ \E p \in OnePool : pmalloc_protect_pool(p)
    \/ \E p \in OnePool : pmalloc_make_pool_ro(p)
    \/ \E p \in OnePool : pmalloc_destroy_pool(p)
    \/ \E dst \in Addr, src \in SrcAddrs, n \in 0 .. MaxLen, f \in FailAts :
         WrMemcpy(dst, src, n, f)
    \/ \E dst \in Addr, c \in FillBytes, n \in 0 .. MaxLen, f \in FailAts :
         WrMemset(dst, c, n, f)
    \/ \E dst \in Addr, val \in PtrVals, f \in FailAts : WrPtr(dst, val, f)
    \/ \E dst \in Addr, val \in PtrVals, f \in FailAts : WrRcuPtr(dst, val, f)

SpecWr == InitWr /\ [][NextWr]_vars

\* The allocator with both kinds of pool: pmalloc pools (mm/prmem.c) and
\* qmalloc pools (mm/pmalloc.c).
AlignOrdersQ == 0 .. (MAX_ALIGN_ORDER + 1)

NextQ ==
    \/ \E refill \in Refills, align_order \in AlignOrders, mode \in Modes :
         pmalloc_create_custom_pool(OnePool, refill, align_order, mode)
    \/ \E p \in OnePool, size \in Sizes, vm_ok \in BOOLEAN :
         IsPPool(p) /\ pmalloc(p, size, vm_ok)
    \/ \E p \in OnePool : IsPPool(p) /\ pmalloc_protect_pool(p)
    \/ \E p \in OnePool : IsPPool(p) /\ pmalloc_make_pool_ro(p)
    \/ \E p \in OnePool : IsPPool(p) /\ pmalloc_destroy_pool(p)
    \/ \E refill \in Refills, align_order \in AlignOrdersQ :
         qmalloc_create_pool(OnePool, refill, align_order)
    \/ \E p \in OnePool, size \in Sizes, vm_ok \in BOOLEAN : qmalloc(p, size, vm_ok)
    \/ \E p \in OnePool : qmalloc_protect_pool(p)
    \/ \E p \in OnePool : qmalloc_destroy_pool(p)

SpecQ == Init /\ [][NextQ]_vars

\* Threads calling the operations of mm/prmem.c on one pool, with
\* pmalloc_destroy_pool kept apart from the other calls by its callers.
FreePagesConc == 4
ModesConc == { {}, {"PMALLOC_WR", "PMALLOC_AUTO"}, {"PMALLOC_WR", "PMALLOC_START"} }

InitConc ==
    /\ areas = [a \in {OtherArea, OldChunk, FillerArea} |->
                 IF a = FillerArea
                 THEN NewArea((VmallocPages - FreePagesConc - 5) * PAGE_SIZE)
                 ELSE InitAreas[a]]
    /\ pools = InitPools
    /\ mem = InitMem
    /\ allocs = OldChunk .. (OldChunk + PAGE_SIZE - 1)
    /\ hist = InitHist
    /\ nwr = 0
    /\ last = NoCall
    /\ thr = [t \in Threads |-> Idle]
    /\ mutex = [p \in PoolIds |-> 0]
    /\ arch = ArchBoot("generic")

SizesConc == {0, 1, PAGE_SIZE + 1}

NextConc ==
    \/ \E mode \in ModesConc : pmalloc_create_custom_pool(OnePool, 0, 0, mode)
    \/ \E t \in Threads, p \in OnePool, size \in SizesConc : pm_lock(t, p, size, TRUE)
    \/ \E t \in Threads, vm_ok \in BOOLEAN : pm_check(t, vm_ok)
    \/ \E t \in Threads : pm_bump(t)
    \/ \E t \in Threads : pm_unlock(t)
    \/ \E t \in Threads, p \in OnePool : pr_lock(t, p, TRUE)
    \/ \E t \in Threads : pr_body(t)
    \/ \E t \in Threads, p \in OnePool : mr_lock(t, p, TRUE)
    \/ \E t \in Threads : mr_body(t)
    \/ \E t \in Threads, p \in OnePool : ds_start(t, p, TRUE)
    \/ \E t \in Threads : ds_loop(t)
    \/ \E t \in Threads : ds_rw(t)
    \/ \E t \in Threads : ds_untag(t)
    \/ \E t \in Threads : ds_vfree(t)
    \/ \E t \in Threads : ds_kfree(t)

SpecConc == InitConc /\ [][NextConc]_vars

\* The same threads when the callers do not keep pmalloc_destroy_pool apart,
\* over the life of one pool.
NextRace ==
    \/ \E mode \in ModesConc :
         last = NoCall /\ pmalloc_create_custom_pool(OnePool, 0, 0, mode)
    \/ \E t \in Threads, p \in OnePool, size \in SizesConc : pm_lock(t, p, size, FALSE)
    \/ \E t \in Threads, vm_ok \in BOOLEAN : pm_check(t, vm_ok)
    \/ \E t \in Threads : pm_bump(t)
    \/ \E t \in Threads : pm_unlock(t)
    \/ \E t \in Threads, p \in OnePool : pr_lock(t, p, FALSE)
    \/ \E t \in Threads : pr_body(t)
    \/ \E t \in Threads, p \in OnePool : mr_lock(t, p, FALSE)
    \/ \E t \in Threads : mr_body(t)
    \/ \E t \in Threads, p \in OnePool : ds_start(t, p, FALSE)
    \/ \E t \in Threads : ds_loop(t)
    \/ \E t \in Threads : ds_rw(t)
    \/ \E t \in Threads : ds_untag(t)
    \/ \E t \in Threads : ds_vfree(t)
    \/ \E t \in Threads : ds_kfree(t)
    \/ \E t \in Threads : undefined(t)

SpecRace == InitConc /\ [][NextRace]_vars

\* Hardened usercopy looking at a pool that is created, filled and destroyed.
SizesUc == {1, PAGE_SIZE + 1}
NsUc == {0, 1, PAGE_SIZE, PAGE_SIZE + 1, ULONG_MAX}

NextUc ==
    \/ pmalloc_create_custom_pool(OnePool, 0, 0, {})
    \/ \E p \in OnePool, size \in SizesUc : pmalloc(p, size, TRUE)
    \/ \E p \in OnePool : pmalloc_destroy_pool(p)
    \/ \E ptr \in Addr, n \in NsUc : call_is_pmalloc_object(ptr, n)
    \/ \E ptr \in Addr, n \in NsUc, to_user \in BOOLEAN :
         check_pmalloc_object(ptr, n, to_user)

SpecUc == Init /\ [][NextUc]_vars

\* Pool-scoped rare writes, through the handle of either pool, while a pool
\* is created, filled and protected.
ModesPw == { {}, {"PMALLOC_WR"} }
NsPw == (0 .. MaxLen) \cup {ULONG_MAX - 1, ULONG_MAX}

NextPw ==
    \/ \E mode \in ModesPw : pmalloc_create_custom_pool(OnePool, 0, 0, mode)
    \/ \E p \in OnePool, size \in SizesWr : pmalloc(p, size, TRUE)
    \/ \E p \in OnePool : pmalloc_protect_pool(p)
    \/ \E p \in PoolIds, dst \in Addr, c \in FillBytes, n \in NsPw, f \in 0 .. 1 :
         PmallocWrMemset(p, dst, c, n, f)
    \/ \E p \in PoolIds, dst \in Addr, src \in SrcAddrs, n \in 0 .. MaxLen, f \in 0 .. 1 :
         PmallocWrCopy(p, dst, src, n, f)

SpecPw == Init /\ [][NextPw]_vars

\* Array allocations from one pool; the counts and element sizes include
\* pairs whose product does not fit size_t.
ModesArr == { {}, {"PMALLOC_WR", "PMALLOC_START"} }
ElemsArr == {0, 1, 2, (ULONG_MAX + 1) \div 3 + 1, (ULONG_MAX + 1) \div 2, ULONG_MAX}
PairsArr == ((0 .. 3) \X ElemsArr) \cup ({(ULONG_MAX + 1) \div 2} \X (0 .. 2))

NextArr ==
    \/ \E mode \in ModesArr : pmalloc_create_custom_pool(OnePool, 0, 0, mode)
    \/ \E p \in OnePool, ns \in PairsArr, vm_ok \in BOOLEAN :
         pmalloc_array(p, ns[1], ns[2], vm_ok)
    \/ \E p \in OnePool, ns \in PairsArr : pcalloc(p, ns[1], ns[2], TRUE)
    \/ \E p \in OnePool : pmalloc_protect_pool(p)
    \/ \E p \in OnePool : pmalloc_destroy_pool(p)

SpecArr == Init /\ [][NextArr]_vars

\* The doubly linked protected list, one operation at a time.
NextList ==
    \/ \E n \in ListNodes : PrlistAdd(n)
    \/ \E n \in ListNodes : PrlistAddTail(n)
    \/ \E n \in ListNodes : PrlistDel(n)
    \/ \E how \in {"prlist_del", "__prlist_del_entry"} : TeardownStart(1, how)
    \/ TeardownStep(1)

SpecList == InitList /\ [][NextList]_vars

\* The protected hash bucket, one operation at a time.
NextHlist ==
    \/ \E n \in ListNodes : PrhlistAddHead(n)
    \/ \E n, next \in ListNodes : PrhlistAddBefore(n, next)
    \/ \E n, prev \in ListNodes : PrhlistAddBehind(n, prev)
    \/ \E n \in ListNodes : PrhlistDel(n)
    \/ HTeardownStart(1)
    \/ HTeardownStep(1)

SpecHlist == InitHlist /\ [][NextHlist]_vars

NextRcu ==
    \/ \E new \in ListNodes, tail \in BOOLEAN : RcuAddCall(Writer, new, tail)
    \/ \E entry \in ListNodes : RcuDelCall(Writer, entry)
    \/ WriterStore(Writer)
    \/ ReaderStart(Reader)
    \/ ReaderStep(Reader)

SpecRcu == InitRcu /\ [][NextRcu]_vars

\* The secondary-mapping backends: bring-up with every way it can fail, then
\* write-rare calls made with interrupts enabled or disabled.
Platforms == {"x86", "arm64", "generic"}

InitArch ==
    /\ areas = InitAreas
    /\ pools = InitPools
    /\ mem = InitMem
    /\ allocs = OldChunk .. (OldChunk + PAGE_SIZE - 1)
    /\ hist = InitHist
    /\ nwr = 0
    /\ last = NoCall
    /\ thr = [t \in Threads |-> Idle]
    /\ mutex = [p \in PoolIds |-> 0]
    /\ arch \in { ArchBoot(p) : p \in Platforms }

ArchDsts == {RODATA_END - 1, __start_wr_after_init, __end_wr_after_init - 1,
             __end_wr_after_init, OldChunk}
ArchLens == {0, 1, PAGE_SIZE + 1, ULONG_MAX}
ArchOps == {WR_MEMCPY, WR_MEMSET, WR_OPS_NUMBER}

NextArch ==
    \/ \E on \in BOOLEAN : CallerIrq(on)
    \/ \E fail \in InitFailures : X86Init(fail)
    \/ \E fail \in InitFailures : Arm64Init(fail)
    \/ \E dst \in ArchDsts, src \in SrcAddrs, len \in ArchLens, op \in ArchOps :
         X86WrOp(dst, src, len, op)
    \/ Arm64WrEnable
    \/ \E dst \in ArchDsts, val \in FillBytes : Arm64Store(dst, val)
    \/ Arm64WrDisable
    \/ \E name \in {"wr_memcpy", "wr_memset"}, dst \in ArchDsts, arg \in SrcAddrs,
          n \in {1, PAGE_SIZE + 1}, fail_at \in FailAts :
         GenericWr(name, dst, arg, n, fail_at)

SpecArch == InitArch /\ [][NextArch]_vars

\* The loop arithmetic over request sizes on both sides of INT_MAX and of
\* UINT_MAX, from both offsets of a page.
SegDsts == {OldChunk, OldChunk + PAGE_SIZE - 1}
SegLens == {1, PAGE_SIZE, PAGE_SIZE + 1, 2 ^ (INT_BITS - 1) - 1, 2 ^ (INT_BITS - 1),
            2 ^ INT_BITS, 2 ^ INT_BITS + 1, ULONG_MAX}

NextSeg ==
    \/ \E d \in SegDsts, n_bytes \in SegLens : SegCall(d, n_bytes)
    \/ SegStep
    \/ SegReturn

SpecSeg == Init /\ [][NextSeg]_vars

\* Two protected lists: every operation of prlist.h that relinks entries.
NextTwoLists ==
    \/ \E h \in ListHeads : ListInitHead(h)
    \/ \E n \in ListNodes, at \in ListHeads \cup ListNodes, tail \in BOOLEAN :
         ListAddAt(n, at, tail)
    \/ \E n \in ListNodes, init \in BOOLEAN : ListDel(n, init)
    \/ \E n \in ListNodes, h \in ListHeads, tail \in BOOLEAN : ListMove(n, h, tail)
    \/ \E old \in ListNodes, new \in ListNodes : ListReplace(old, new)
    \/ \E list \in ListHeads, head \in ListHeads : ListSpliceInit(list, head)

SpecTwoLists == InitTwoLists /\ [][NextTwoLists]_vars

\* Pool creation over the whole range of refill values.
RefillsAll == {0, 1, PAGE_SIZE, PAGE_SIZE + 1, LONG_MAX, LONG_MAX + 1,
               ULONG_MAX - PAGE_SIZE + 1, ULONG_MAX}
AlignOrdersAll == -1 .. (MAX_ALIGN_ORDER + 1)

NextCreate ==
    \/ \E refill \in RefillsAll, align_order \in AlignOrdersAll, mode \in Modes :
         pmalloc_create_custom_pool(OnePool, refill, align_order, mode)
    \/ \E p \in OnePool : IsPPool(p) /\ pmalloc_destroy_pool(p)
    \/ \E refill \in RefillsAll, align_order \in AlignOrdersAll \ {-1} :
         qmalloc_create_pool(OnePool, refill, align_order)
    \/ \E p \in OnePool : qmalloc_destroy_pool(p)

SpecCreate == Init /\ [][NextCreate]_vars

\* pmalloc on a genalloc pool, with every combination of the three gfp flags
\* the function looks at.
GfpFlags == SUBSET {"__GFP_ATOMIC", "__GFP_NOFAIL", "__GFP_ZERO"}
SizesGp == {0, 1, PAGE_SIZE + 1}

InitGp ==
    /\ areas = InitAreas
    /\ pools = [p \in PoolIds |-> IF p \in OnePool THEN GenPool ELSE InitPools[p]]
    /\ mem = InitMem
    /\ allocs = OldChunk .. (OldChunk + PAGE_SIZE - 1)
    /\ hist = InitHist
    /\ nwr = 0
    /\ last = NoCall
    /\ thr = [t \in Threads |-> Idle]
    /\ mutex = [p \in PoolIds |-> 0]
    /\ arch = ArchBoot("generic")

NextGp ==
    \/ \E p \in OnePool, size \in SizesGp, gfp \in GfpFlags :
         GpPmalloc(Writer, p, size, gfp)
    \/ \E vm_ok \in BOOLEAN, add_ok \in BOOLEAN : GpPmallocIter(Writer, vm_ok, add_ok)
    \/ \E p \in OnePool : GpProtect(p)

SpecGp == InitGp /\ [][NextGp]_vars

\* Write-rare counters in the static section, in a write-rare pool chunk and
\* elsewhere.
CounterAddrs == {RODATA_START, __start_wr_after_init,
                 __start_wr_after_init + PAGE_SIZE, OtherArea, OldChunk}
StalePages == {NULL, __start_wr_after_init, OldChunk}

NextCounters ==
    \E inc \in BOOLEAN, l \in CounterAddrs, vmap_ok \in BOOLEAN, page \in StalePages :
       PratomicLong(inc, l, vmap_ok, page)

SpecCounters == Init /\ [][NextCounters]_vars

\* ------------------------------------------------------------------ claims
WrOps == {"wr_memcpy", "wr_memset", "wr_ptr", "__wr_rcu_ptr"}

\* what the caller of a write-rare operation sees on failure
Failed(l) == IF l.op = "__wr_rcu_ptr" THEN l.ret = NULL ELSE l.ret = FALSE

Chunks(pl, p) == { pl[p].area[i] : i \in DOMAIN pl[p].area }

Protected(ar, a) == "VM_PMALLOC_PROTECTED" \in ar[a].flags /\ ar[a].ro

WrTagged(ar, a) == VM_PMALLOC_WR_MASK \subseteq ar[a].flags

Range(dst, n) == dst .. (dst + n - 1)

InStatic(dst, n) ==
    /\ dst \in __start_wr_after_init .. (__end_wr_after_init - 1)
    /\ Range(dst, n) \subseteq __start_wr_after_init .. (__end_wr_after_init - 1)

InWrChunk(ar, dst, n) ==
    \E a \in DOMAIN ar :
        /\ WrTagged(ar, a)
        /\ dst \in AreaBytes(ar, a)
        /\ Range(dst, n) \subseteq AreaBytes(ar, a)

InsideWrRegion(ar, dst, n) == InStatic(dst, n) \/ InWrChunk(ar, dst, n)

\* dst lies in a chunk of a live pool that was created without PMALLOC_WR
InRoPoolChunk(dst) ==
    \E p \in PoolIds :
        /\ Live(p)
        /\ "PMALLOC_WR" \notin hist[p].created_mode
        /\ \E c \in Chunks(pools, p) : dst \in AreaBytes(areas, c)

\* C1: a write-rare operation passes the range validation only if the whole
\* range [dst, dst+n) lies inside the static write-rare section or inside
\* one write-rare chunk; a range that starts in a write-rare chunk and runs
\* past its end is refused.
C1_AcceptedOnlyInsideOneRegion ==
    (last.op \in WrOps /\ last.checked)
        => InsideWrRegion(areas, last.dst, last.n)

\* C2: wr_memcpy and the fixed-width helpers built on it, called on a range
\* that is neither inside the static section nor inside a write-rare chunk,
\* return false and leave memory unchanged.
C2_OutsideFailsUnchanged ==
    [][ ( /\ last'.op \in {"wr_memcpy", "wr_ptr"}
          /\ nwr' = nwr + 1
          /\ ~InsideWrRegion(areas, last'.dst, last'.n) )
        => (last'.ret = FALSE /\ mem' = mem) ]_vars

\* C3: every write-rare operation whose destination lies in a chunk of a
\* pool created read-only (PMALLOC_RO, with or without AUTO), protected or
\* not, is refused, reports failure and leaves memory unchanged.
C3_RoPoolRefusesWrites ==
    [][ ( /\ last'.op \in WrOps
          /\ nwr' = nwr + 1
          /\ InRoPoolChunk(last'.dst) )
        => (Failed(last') /\ ~last'.checked /\ mem' = mem) ]_vars

C3_Witness ==
    /\ last.op \in WrOps
    /\ InRoPoolChunk(last.dst)
    /\ Protected(areas, AreaOf(areas, last.dst))
    /\ last.n > 0
    /\ Failed(last)

C5_AllocInsideChunkDisjoint ==
    [][ (last'.op = "pmalloc" /\ last'.ret # NULL)
        => ( /\ \E c \in Chunks(pools', last'.pool) :
                    /\ areas'[c].pool = last'.pool
                    /\ c <= last'.ret
                    /\ last'.ret < AreaEnd(areas', c)
                    /\ last'.ret + last'.size <= AreaEnd(areas', c)
             /\ Range(last'.ret, last'.size) \cap allocs = {} ) ]_vars

\* C5 for requests of positive size (what remains true of pmalloc once the
\* zero-size request is set aside).
C5_PositiveSizes ==
    [][ (last'.op = "pmalloc" /\ last'.ret # NULL /\ last'.size > 0)
        => ( /\ \E c \in Chunks(pools', last'.pool) :
                    /\ areas'[c].pool = last'.pool
                    /\ c <= last'.ret
                    /\ last'.ret < AreaEnd(areas', c)
                    /\ last'.ret + last'.size <= AreaEnd(areas', c)
             /\ Range(last'.ret, last'.size) \cap allocs = {} ) ]_vars

\* C6 as stated: in every mode, start-protected included, pmalloc never
\* hands out memory (a request of positive size) from a chunk that is
\* protected at that moment.
C6_Original ==
    (last.op = "pmalloc" /\ last.ret # NULL /\ last.size > 0)
        => ~Protected(areas, Head(pools[last.pool].area))

\* C6 amended: in a pool whose mode lacks PMALLOC_START, pmalloc never hands
\* out memory from a protected chunk, and a protected current chunk forces
\* the growth of a new chunk.
C6_NoAllocFromProtected ==
    [][ ( /\ last'.op = "pmalloc"
          /\ last'.ret # NULL
          /\ "PMALLOC_START" \notin pools[last'.pool].mode )
        => ( /\ ~Protected(areas', Head(pools'[last'.pool].area))
             /\ ( ( /\ pools[last'.pool].area # <<>>
                    /\ Protected(areas, Head(pools[last'.pool].area)) )
                  => /\ Len(pools'[last'.pool].area) = Len(pools[last'.pool].area) + 1
                     /\ Head(pools'[last'.pool].area) \notin DOMAIN areas ) ) ]_vars

\* a manual pool has been protected explicitly and has then allocated
C6_Witness ==
    /\ last.op = "pmalloc"
    /\ last.ret # NULL
    /\ pools[last.pool].mode \cap {"PMALLOC_START", "PMALLOC_AUTO"} = {}
    /\ Len(pools[last.pool].area) >= 2
    /\ Protected(areas, pools[last.pool].area[2])

\* C7: after pmalloc_protect_pool on a pool that is not start-protected,
\* the chunks that existed at the call stay chunks of the pool and stay
\* protected, and every later successful pmalloc returns memory from a
\* chunk that did not exist at the call.
C7_AfterProtectNewChunk ==
    \A p \in PoolIds :
        Live(p) =>
            /\ \A c \in hist[p].snap :
                    c \in Chunks(pools, p) /\ Protected(areas, c)
            /\ (last.op = "pmalloc" /\ last.pool = p /\ last.ret # NULL)
                    => /\ Head(pools[p].area) \notin hist[p].snap
                       /\ \A c \in hist[p].snap :
                            Range(last.ret, last.size) \cap AreaBytes(areas, c) = {}

C7_Witness ==
    /\ last.op = "pmalloc"
    /\ last.ret # NULL
    /\ last.size > 0
    /\ last.pool \in OnePool
    /\ Cardinality(hist[last.pool].snap) >= 2

\* C8: after pmalloc_make_pool_ro the mode carries neither PMALLOC_WR nor
\* PMALLOC_START, every chunk of the pool is protected when the call
\* returns, and every write-rare operation on bytes of a chunk of the pool
\* fails.
C8_MakeRoEndsWrites ==
    \A p \in PoolIds :
        (Live(p) /\ hist[p].made_ro) =>
            /\ pools[p].mode \cap {"PMALLOC_WR", "PMALLOC_START"} = {}
            /\ (last.op = "make_pool_ro" /\ last.pool = p)
                    => \A c \in Chunks(pools, p) : Protected(areas, c)
            /\ ( /\ last.op \in WrOps
                 /\ last.n > 0
                 /\ \E c \in Chunks(pools, p) : last.dst \in AreaBytes(areas, c) )
                    => Failed(last)

\* C9: all chunks of one pool carry the same write-rare capability tag.
C9_NoMixedChunks ==
    \A p \in PoolIds :
        Live(p) =>
            \A c1, c2 \in Chunks(pools, p) :
                ("VM_PMALLOC_WR" \in areas[c1].flags)
                    <=> ("VM_PMALLOC_WR" \in areas[c2].flags)

\* C10: in an auto-protect pool that is not start-protected and on which
\* neither protect nor make_pool_ro was called, once a chunk exists the
\* current chunk is the only unprotected one.
C10_AutoOneUnprotected ==
    \A p \in PoolIds :
        ( /\ Live(p)
          /\ "PMALLOC_AUTO" \in pools[p].mode
          /\ "PMALLOC_START" \notin pools[p].mode
          /\ ~hist[p].explicit
          /\ pools[p].area # <<>> )
        => /\ ~Protected(areas, Head(pools[p].area))
           /\ \A i \in 2 .. Len(pools[p].area) : Protected(areas, pools[p].area[i])

C10_Witness ==
    \E p \in PoolIds :
        /\ Live(p)
        /\ "PMALLOC_AUTO" \in pools[p].mode
        /\ "PMALLOC_START" \notin pools[p].mode
        /\ ~hist[p].explicit
        /\ Len(pools[p].area) >= 3

AllProtected(ar, pl, p) == \A c \in Chunks(pl, p) : Protected(ar, c)

\* C12: when pmalloc_protect_pool or qmalloc_protect_pool returns, every
\* chunk of the pool is protected and the chunk list, the offset and the
\* mode are as before; a call on a pool whose chunks are all protected
\* already (a repeated call) also leaves every chunk's tags unchanged.
C12_ProtectIdempotent ==
    [][ last'.op \in {"protect", "qprotect"}
        => /\ pools' = pools
           /\ DOMAIN areas' = DOMAIN areas
           /\ AllProtected(areas', pools', last'.pool)
           /\ AllProtected(areas, pools, last'.pool) => areas' = areas ]_vars

\* pmalloc_protect_pool has returned on a pool of several chunks that were
\* all protected before the call (a start-protected pool)
C12_Witness ==
    /\ last.op = "protect"
    /\ IsPPool(last.pool)
    /\ "PMALLOC_START" \in pools[last.pool].mode
    /\ Len(pools[last.pool].area) >= 2
    /\ AllProtected(areas, pools, last.pool)

\* qmalloc_protect_pool has returned on a pool that holds chunks protected
\* by an earlier call and a chunk grown since
C12_WitnessQ ==
    /\ last.op = "qprotect"
    /\ Len(pools[last.pool].area) >= 3
    /\ AllProtected(areas, pools, last.pool)

Tags(ar, a) == ar[a].flags \cap VM_PMALLOC_MASK

C15_FailedGrowthChangesNothing ==
    [][ \A t \in Threads :
          /\ (thr[t].pc = "a_check" /\ thr'[t].pc = "a_unlock")
                => /\ thr'[t].ret = NULL
                   /\ space_needed(areas, pools[thr[t].pool], thr[t].size)
                   /\ pools'[thr[t].pool] = thr[t].pre.pool
                   /\ areas' = thr[t].pre.areas
          /\ (thr[t].pc = "a_unlock" /\ thr'[t].pc = "idle" /\ thr[t].ret = NULL)
                => /\ last'.op = "pmalloc" /\ last'.ret = NULL
                   /\ mutex[thr[t].pool] = t
                   /\ mutex'[thr[t].pool] = 0
                   /\ pools'[thr[t].pool] = thr[t].pre.pool
                   /\ areas' = thr[t].pre.areas ]_vars

\* a pmalloc call on an auto-protect pool whose current chunk is writable has
\* returned NULL
C15_Witness ==
    /\ last.op = "pmalloc" /\ last.ret = NULL
    /\ Live(last.pool)
    /\ "PMALLOC_AUTO" \in pools[last.pool].mode
    /\ pools[last.pool].area # <<>>
    /\ ~areas[Head(pools[last.pool].area)].ro
    /\ mutex[last.pool] = 0

\* C16: concurrent pmalloc calls on one pool never interleave their space
\* check, growth and bump: at most one thread is between mutex_lock and
\* mutex_unlock of a pool and it owns the pool's mutex; the range every call
\* returns lies inside one chunk of the pool and is disjoint from every
\* range returned before, by whichever thread.
C16_PmallocSerialized ==
    /\ [](\A p \in PoolIds :
            \A t, u \in Threads :
                ( /\ thr[t].pc \in CriticalPcs /\ thr[t].pool = p
                  /\ thr[u].pc \in CriticalPcs /\ thr[u].pool = p )
                    => (t = u /\ mutex[p] = t))
    /\ [][ \A t \in Threads :
             (thr[t].pc = "a_unlock" /\ thr'[t].pc = "idle" /\ thr[t].ret # NULL)
                => /\ \E c \in Chunks(pools, thr[t].pool) :
                        Range(thr[t].ret, thr[t].size) \subseteq AreaBytes(areas, c)
                   /\ Range(thr[t].ret, thr[t].size) \cap allocs = {}
                   /\ last'.ret = thr[t].ret ]_vars

\* a pmalloc call is about to return bytes of a chunk from which an earlier
\* call was served, while the pool's mutex is held
C16_Witness ==
    \E t \in Threads :
        /\ thr[t].pc = "a_unlock" /\ thr[t].ret # NULL /\ thr[t].size > 0
        /\ mutex[thr[t].pool] = t
        /\ (allocs \cap AreaBytes(areas, Head(pools[thr[t].pool].area)))
              \ Range(thr[t].ret, thr[t].size) # {}

\* C17: pmalloc_destroy_pool never has a chunk unlinked from the pool and on
\* its way to vfree while another thread is inside the critical section of
\* pmalloc, pmalloc_protect_pool or pmalloc_make_pool_ro on the same pool.
C17_DestroyExcludesCriticalSections ==
    \A t \in Threads :
        thr[t].pc \in {"d_rw", "d_untag", "d_vfree"}
            => \A u \in Threads :
                  ~(thr[u].pc \in CriticalPcs /\ thr[u].pool = thr[t].pool)

\* the chunks of all pools, and the classification the specification gives
\* the range [ptr, ptr + n)
PoolChunks == UNION { Chunks(pools, p) : p \in { q \in PoolIds : Live(q) } }
StartsIn(c, ptr) == c <= ptr /\ ptr < AreaEnd(areas, c)
IsValid(ptr, n) == \E c \in PoolChunks : StartsIn(c, ptr) /\ ptr + n <= AreaEnd(areas, c)
IsInvalid(ptr, n) == \E c \in PoolChunks : StartsIn(c, ptr) /\ ptr + n > AreaEnd(areas, c)

\* C18: is_pmalloc_object(ptr, n) returns Valid exactly when [ptr, ptr + n)
\* lies inside one pool chunk, Invalid exactly when ptr is inside a pool
\* chunk and the range runs past the end of that chunk, and Unmanaged in
\* every other case.
C18_Classification ==
    last.op = "is_pmalloc_object"
        => /\ (last.ret = VALID_PMALLOC_OBJECT) <=> IsValid(last.ptr, last.n)
           /\ (last.ret = INVALID_PMALLOC_OBJECT) <=> IsInvalid(last.ptr, last.n)
           /\ (last.ret = NOT_PMALLOC_OBJECT)
                 <=> (~IsValid(last.ptr, last.n) /\ ~IsInvalid(last.ptr, last.n))

\* C18 for the ranges whose end ptr + n is representable as unsigned long
C18_ClassificationNoWrap ==
    (last.op = "is_pmalloc_object" /\ last.ptr + last.n <= ULONG_MAX)
        => /\ (last.ret = VALID_PMALLOC_OBJECT) <=> IsValid(last.ptr, last.n)
           /\ (last.ret = INVALID_PMALLOC_OBJECT) <=> IsInvalid(last.ptr, last.n)
           /\ (last.ret = NOT_PMALLOC_OBJECT)
                 <=> (~IsValid(last.ptr, last.n) /\ ~IsInvalid(last.ptr, last.n))

\* C19: check_pmalloc_object(ptr, n, to_user) ends in usercopy_abort whenever
\* the range is Invalid, whatever the direction, and whenever it is Valid
\* and the copy overwrites kernel memory (to_user false); it returns for an
\* Unmanaged range and for a Valid range copied towards user space.
C19_AbortRules ==
    last.op = "check_pmalloc_object"
        => LET aborted == last.halt \in {"trying to write to pmalloc object",
                                         "invalid pmalloc object"}
               valid == IsValid(last.ptr, last.n)
               invalid == IsInvalid(last.ptr, last.n)
           IN  /\ invalid => aborted
               /\ (valid /\ ~last.to_user) => aborted
               /\ ((~valid /\ ~invalid) \/ (valid /\ last.to_user))
                     => last.halt = "none"

\* C19 for the ranges that lie inside one chunk or lie in memory backed by
\* pages that is no chunk
C19_AbortRulesValidOrMapped ==
    ( /\ last.op = "check_pmalloc_object"
      /\ ~IsInvalid(last.ptr, last.n)
      /\ ~null_page_deref(areas, last.ptr) )
        => LET aborted == last.halt \in {"trying to write to pmalloc object",
                                         "invalid pmalloc object"}
               valid == IsValid(last.ptr, last.n)
           IN  /\ (valid /\ ~last.to_user) => aborted
               /\ (~valid \/ last.to_user) => last.halt = "none"

\* C20: a rare write made through a pool handle (pmalloc_wr_copy,
\* pmalloc_wr_memset) returns true only when [dst, dst + n) lies in a
\* write-rare chunk of that pool; with dst in the static write-rare section,
\* in read-only data or in a chunk of another pool it returns false and
\* memory is unchanged.
C20_PoolScopedWrite ==
    [][ (last'.op \in {"pmalloc_wr_copy", "pmalloc_wr_memset"} /\ nwr' = nwr + 1)
        => LET p == last'.pool
               dst == last'.dst
               n == last'.n
               own == \E c \in Chunks(pools, p) :
                         /\ "VM_PMALLOC_WR" \in areas[c].flags
                         /\ c <= dst /\ dst + n <= AreaEnd(areas, c)
               elsewhere ==
                   \/ dst \in __start_wr_after_init .. (__end_wr_after_init - 1)
                   \/ dst \in RODATA_START .. (RODATA_END - 1)
                   \/ \E q \in PoolIds \ {p} :
                         Live(q) /\ \E c \in Chunks(pools, q) : dst \in AreaBytes(areas, c)
           IN  /\ last'.ret => (own /\ n > 0 /\ last'.halt = "none")
               /\ elsewhere => (~last'.ret /\ mem' = mem /\ last'.halt = "none") ]_vars

\* C20 for the ranges whose end dst + n is representable as size_t
C20_PoolScopedWriteNoWrap ==
    [][ ( /\ last'.op \in {"pmalloc_wr_copy", "pmalloc_wr_memset"}
          /\ nwr' = nwr + 1
          /\ last'.dst + last'.n <= ULONG_MAX )
        => LET p == last'.pool
               dst == last'.dst
               n == last'.n
               own == \E c \in Chunks(pools, p) :
                         /\ "VM_PMALLOC_WR" \in areas[c].flags
                         /\ c <= dst /\ dst + n <= AreaEnd(areas, c)
               elsewhere ==
                   \/ dst \in __start_wr_after_init .. (__end_wr_after_init - 1)
                   \/ dst \in RODATA_START .. (RODATA_END - 1)
                   \/ \E q \in PoolIds \ {p} :
                         Live(q) /\ \E c \in Chunks(pools, q) : dst \in AreaBytes(areas, c)
           IN  /\ last'.ret => (own /\ n > 0 /\ last'.halt = "none")
               /\ elsewhere => (~last'.ret /\ mem' = mem /\ last'.halt = "none") ]_vars

\* C21: pmalloc_array(pool, n, size) and pcalloc(pool, n, size) return NULL
\* without calling the allocator (the pool and all areas stay as they are)
\* whenever n = 0 or n * size does not fit size_t; otherwise they pass
\* exactly n * size to pmalloc / pzalloc.
C21_ArrayOverflowRejected ==
    [][ (last'.op \in {"pmalloc_array", "pcalloc"} /\ last' # last)
        => LET n == last'.n
               size == last'.elem
               rejected == n = 0 \/ n * size > ULONG_MAX
           IN  /\ rejected => /\ last'.ret = NULL
                              /\ ~last'.called
                              /\ UNCHANGED <<arch, areas, pools, mem, allocs>>
               /\ ~rejected => /\ last'.called
                               /\ last'.size = n * size ]_vars

\* a request whose product wraps around to a small positive number was
\* refused on a pool that could have served that number of bytes
C21_Witness ==
    /\ last.op \in {"pmalloc_array", "pcalloc"}
    /\ last.n * last.elem > ULONG_MAX
    /\ ulong(last.n * last.elem) \in 1 .. PAGE_SIZE
    /\ last.ret = NULL
    /\ Live(last.pool)

\* A well-formed list: the forward walk from the head comes back to the head
\* without visiting a node twice, and every prev link is the inverse of the
\* next link it mirrors.
WellFormed(m, head) ==
    LET f == Forward(m, head)
        ring == <<head>> \o f \o <<head>>
    IN  /\ Len(f) <= MaxNodes
        /\ \A i, j \in DOMAIN f : f[i] = f[j] => i = j
        /\ \A i \in 1 .. Len(ring) - 1 :
              /\ next_of(m, ring[i]) = ring[i + 1]
              /\ prev_of(m, ring[i + 1]) = ring[i]

HWellFormed(m, head) ==
    LET c == Chain(m, head) IN
    /\ Len(c) <= MaxNodes
    /\ \A i, j \in DOMAIN c : c[i] = c[j] => i = j
    /\ (IF c = <<>> THEN first_of(m, head) ELSE next_of(m, c[Len(c)])) = NULL
    /\ \A i \in DOMAIN c :
          /\ pprev_of(m, c[i]) = (IF i = 1 THEN AddrFirst(head)
                                  ELSE AddrNext(c[i - 1]))
          /\ LoadPtr(m, pprev_of(m, c[i])) = c[i]

InsertAt(s, i, x) == SubSeq(s, 1, i - 1) \o <<x>> \o SubSeq(s, i, Len(s))
IndexOf(s, x) == CHOOSE i \in DOMAIN s : s[i] = x

RcuAdds == {"prlist_add_rcu", "prlist_add_tail_rcu"}

C23_DelRcuUnlinks ==
    (last.op = "prlist_del_rcu" /\ last.ended) =>
        /\ next_of(mem, last.prev) = last.next
        /\ prev_of(mem, last.next) = last.prev
        /\ next_of(mem, last.node) = last.next
        /\ prev_of(mem, last.node) = LIST_POISON2
        /\ Returns(mem, ListHead, last.node)
        /\ last.node \notin SeqSet(Forward(mem, ListHead))

\* What does hold: a call of prlist_del_rcu(entry) on a valid entry none of
\* whose three stores faults, which takes entry and both its neighbours in
\* writable memory, has these effects.
C23_DelRcuUnlinksWritable ==
    (last.op = "prlist_del_rcu" /\ last.ended /\ ~last.fault /\ last.k = 3) =>
        /\ next_of(mem, last.prev) = last.next
        /\ prev_of(mem, last.next) = last.prev
        /\ next_of(mem, last.node) = last.next
        /\ prev_of(mem, last.node) = LIST_POISON2
        /\ Returns(mem, ListHead, last.node)
        /\ last.node \notin SeqSet(Forward(mem, ListHead))

\* C24: every store to a link field made by a protected-list operation, the
\* lock-free variants included, is issued through the write-rare engine
\* (wr_ptr or wr_rcu_assign_pointer), none by a plain store.
C24_LinkStoresWriteRare ==
    last.op \in RcuAdds \cup {"prlist_del_rcu"} =>
        last.via \in {"wr_ptr", "wr_rcu_assign_pointer"}

\* What does hold: the stores of the two lock-free insertions are write-rare
\* stores, and none of them faults on protected memory.
C24_RcuAddStoresWriteRare ==
    last.op \in RcuAdds =>
        /\ last.via \in {"wr_ptr", "wr_rcu_assign_pointer"}
        /\ ~last.fault

\* The conditions under which x86 __wr_op(dst, src, len, op) must refuse.
X86Refusal(dst, len, op) ==
    \/ ~arch.wr_ready
    \/ op \notin {WR_MEMCPY, WR_MEMSET}
    \/ ~(__start_wr_after_init <= dst /\ dst + len <= __end_wr_after_init)

\* C31: when the writable mapping is not ready, op is not a known operation
\* or [dst, dst+len) is not fully inside the static write-rare section, x86
\* __wr_op writes no byte and returns a failure result that differs from the
\* result of a successful operation (a successful __wr_op returns dst).
C31_RefusalIsReported ==
    [][\A dst \in ArchDsts, src \in SrcAddrs, len \in ArchLens, op \in ArchOps :
         (X86WrOp(dst, src, len, op) /\ X86Refusal(dst, len, op))
         => (mem' = mem /\ last'.ret # dst)]_vars

\* the part of C31 the code keeps: a refused __wr_op writes no byte
C31_RefusalWritesNothing ==
    [][\A dst \in ArchDsts, src \in SrcAddrs, len \in ArchLens, op \in ArchOps :
         (X86WrOp(dst, src, len, op) /\ X86Refusal(dst, len, op))
         => mem' = mem]_vars

\* Bring-up has run and left the secondary mapping missing or partial.
BringUpIncomplete ==
    arch.inited /\ (~arch.wr_mm \/ arch.mapped # StaticPageSet)

\* C32: if the one-time initialization of the secondary mapping fails (no
\* alternate address space, or a page of the static write-rare section that
\* cannot be mapped), the system halts: it never runs on with the mapping
\* missing or partly set up.
C32_FailedBringUpHalts == BringUpIncomplete => arch.halted

\* the part of C32 the code keeps: the arm64 bring-up halts on every failure
C32_Arm64FailedBringUpHalts ==
    (arch.platform = "arm64" /\ BringUpIncomplete) => arch.halted

\* The calls made while a write-rare window is open: after interrupts are
\* disabled and before they are restored.
RECURSIVE InWindow(_, _)
InWindow(calls, open) ==
    IF calls = <<>> THEN {}
    ELSE LET c == Head(calls) IN
         IF c \in {"local_irq_save", "local_irq_disable"}
         THEN InWindow(Tail(calls), TRUE)
         ELSE IF c \in {"local_irq_restore", "local_irq_enable"}
         THEN InWindow(Tail(calls), FALSE)
         ELSE (IF open THEN {c} ELSE {}) \cup InWindow(Tail(calls), open)

\* vmap() allocates a vm area and page tables with GFP_KERNEL and may sleep;
\* vunmap() may sleep and must not run in interrupt context.
AllocatesOrSleeps == {"vmap", "vunmap"}
ActivateView == {"virt_to_page", "vmalloc_to_page", "vmap", "use_temporary_mm"}
ByteOperation == {"__write_once_size", "memset", "copy_to_user", "memset_user"}
DeactivateView == {"vunmap", "unuse_temporary_mm"}

\* C33: while a write-rare window is open the engine makes no call that
\* allocates memory, blocks or sleeps: inside the window it only activates the
\* secondary view, performs the byte operation (or reports the failure to
\* activate) and deactivates the view.
C33_WindowNeverAllocatesOrSleeps ==
    last.op \in {"wr_memcpy", "wr_memset", "__wr_op"}
    => /\ InWindow(last.calls, FALSE) \cap AllocatesOrSleeps = {}
       /\ InWindow(last.calls, FALSE) \subseteq
            ActivateView \cup ByteOperation \cup DeactivateView \cup {"WARN"}

\* the part of C33 the code keeps: the window of x86 __wr_op
C33_X86WindowNeverAllocatesOrSleeps ==
    last.op = "__wr_op"
    => /\ InWindow(last.calls, FALSE) \cap AllocatesOrSleeps = {}
       /\ InWindow(last.calls, FALSE) \subseteq
            ActivateView \cup ByteOperation \cup DeactivateView

\* C36: every write-rare entry point returns with the local interrupt-enable
\* state and the active address space it was entered with, on success and on
\* every failure path, whether interrupts were enabled or disabled on entry.
C36_EntryStateRestored ==
    last.op \in {"wr_memcpy", "wr_memset", "__wr_op", "__wr_disable"}
    => (last.irqs_out = last.irqs_in /\ last.mm_out = last.mm_in)

\* the part of C36 the code keeps: the entry points of prmem.h and the arm64
\* enable/disable pair restore both, and x86 __wr_op restores the address space
C36_RestoredExceptX86Interrupts ==
    /\ last.op \in {"wr_memcpy", "wr_memset", "__wr_disable"}
       => (last.irqs_out = last.irqs_in /\ last.mm_out = last.mm_in)
    /\ last.op = "__wr_op"
       => /\ last.mm_out = last.mm_in
          /\ (last.irqs_in \/ last.calls = <<"WARN_ONCE">>)
             => last.irqs_out = last.irqs_in

\* C34: for every n_bytes > 0 and every offset within a page, each iteration
\* of the loop transfers exactly min(remaining, PAGE_SIZE - offset_in_page)
\* bytes, at least 1 and never past the end of the remapped page, and the
\* loop terminates (the remaining count decreases with every iteration) with
\* the sum of the segment sizes equal to n_bytes.
C34_SegmentSizes ==
    [][/\ SegStep =>
            /\ thr'[Writer].size =
                 Min(thr[Writer].n_bytes, PAGE_SIZE - (thr[Writer].d % PAGE_SIZE))
            /\ thr'[Writer].size >= 1
            /\ thr'[Writer].offset + thr'[Writer].size <= PAGE_SIZE
            /\ thr'[Writer].n_bytes < thr[Writer].n_bytes
       /\ SegReturn => last'.sum = last'.n]_vars

\* the part of C34 the code keeps: requests of at most INT_MAX bytes
C34_SegmentSizesUpToIntMax ==
    [][/\ (SegStep /\ thr[Writer].n0 < 2 ^ (INT_BITS - 1)) =>
            /\ thr'[Writer].size =
                 Min(thr[Writer].n_bytes, PAGE_SIZE - (thr[Writer].d % PAGE_SIZE))
            /\ thr'[Writer].size >= 1
            /\ thr'[Writer].offset + thr'[Writer].size <= PAGE_SIZE
            /\ thr'[Writer].n_bytes < thr[Writer].n_bytes
       /\ (SegReturn /\ thr[Writer].n0 < 2 ^ (INT_BITS - 1)) => last'.sum = last'.n]_vars

\* C35: if wr_memcpy or wr_memset (or the loop of __raw_rare_write, which is
\* the same loop) returns false, no byte of the destination range has been
\* modified, also when it is the remapping of a later page of a multi-page
\* transfer that fails.
C35_FailureWritesNothing ==
    [][(nwr' = nwr + 1 /\ last'.op \in {"wr_memcpy", "wr_memset"}
        /\ last'.ret = FALSE)
       => mem' = mem]_vars

\* the part of C35 the code keeps: a call refused by the range check writes
\* nothing
C35_RefusalWritesNothing ==
    [][(nwr' = nwr + 1 /\ last'.op \in {"wr_memcpy", "wr_memset"}
        /\ ~last'.checked)
       => (last'.ret = FALSE /\ mem' = mem)]_vars

\* the entries met by following next from h, h included
RingOf(m, h) == {h} \cup OnList(m, h)

\* following next from h comes back to h
Closed(m, h) ==
    LET f == Forward(m, h)
    IN  IF f = <<>> THEN next_of(m, h) = h ELSE next_of(m, f[Len(f)]) = h

RefillAndAlignAsAsked(pool, refill, align_order) ==
    /\ pool.refill # 0
    /\ pool.refill % PAGE_SIZE = 0
    /\ pool.refill >= refill
    /\ refill = 0 => pool.refill = PAGE_SIZE
    /\ pool.align = IF align_order < 0 THEN ARCH_KMALLOC_MINALIGN
                    ELSE 2 ^ align_order

\* C38: for every refill value passed to pmalloc_init_custom_pool /
\* pmalloc_create_custom_pool (and to qmalloc_create_pool when it accepts the
\* arguments) the pool's refill is a non-zero multiple of PAGE_SIZE that is at
\* least the requested value, exactly PAGE_SIZE when 0 is passed, and the
\* alignment is 2^align_order, or the platform minimum for a negative order.
C38_RefillRoundedUp ==
    [][/\ \A refill \in RefillsAll, align_order \in AlignOrdersAll, mode \in Modes :
            (pmalloc_create_custom_pool(OnePool, refill, align_order, mode)
             /\ last'.ret # NULL)
            => RefillAndAlignAsAsked(pools'[last'.ret], refill, align_order)
       /\ \A refill \in RefillsAll, align_order \in AlignOrdersAll \ {-1} :
            (qmalloc_create_pool(OnePool, refill, align_order)
             /\ last'.ret # NULL)
            => RefillAndAlignAsAsked(pools'[last'.ret], refill, align_order)]_vars

\* the part of C38 the code keeps: refill values whose rounding is
\* representable
C38_RefillRoundedUpWhenRepresentable ==
    [][/\ \A refill \in RefillsAll, align_order \in AlignOrdersAll, mode \in Modes :
            (pmalloc_create_custom_pool(OnePool, refill, align_order, mode)
             /\ last'.ret # NULL /\ refill <= ULONG_MAX - PAGE_SIZE + 1)
            => RefillAndAlignAsAsked(pools'[last'.ret], refill, align_order)
       /\ \A refill \in RefillsAll, align_order \in AlignOrdersAll \ {-1} :
            (qmalloc_create_pool(OnePool, refill, align_order)
             /\ last'.ret # NULL)
            => RefillAndAlignAsAsked(pools'[last'.ret], refill, align_order)]_vars

\* [addr, addr + size) lies inside a chunk of the pool
InsideChunk(pool, addr, size) ==
    \E i \in DOMAIN pool.chunks :
       /\ pool.chunks[i].start_addr <= addr
       /\ addr + size <= pool.chunks[i].start_addr + pool.chunks[i].size

\* the pool of the call in progress has no room for its request
NoRoom(t) == gen_pool_alloc(pools[thr[t].pool], thr[t].size).addr = 0

\* C39: every call to the genalloc-based pmalloc(pool, size, gfp) terminates
\* (an iteration of its loop that does not return has added a chunk to the
\* pool) and returns NULL or a pointer to size bytes inside a chunk of the
\* pool; it returns NULL when the pool is already protected, and when the
\* pool has no room and the request includes __GFP_ATOMIC it returns NULL
\* instead of expanding the pool or retrying.
C39_PmallocTerminates ==
    [][/\ \A p \in OnePool, size \in SizesGp, gfp \in GfpFlags :
            (GpPmalloc(Writer, p, size, gfp) /\ pools[p].protected)
            => (thr'[Writer] = Idle /\ last'.ret = NULL)
       /\ (thr[Writer].pc = "pmalloc_loop" /\ thr'[Writer] = Idle)
            => \/ last'.ret = NULL
               \/ InsideChunk(pools'[thr[Writer].pool], last'.ret, last'.size)
       /\ (thr[Writer].pc = "pmalloc_loop" /\ thr'[Writer].pc = "pmalloc_loop")
            => Len(pools'[thr[Writer].pool].chunks) > Len(pools[thr[Writer].pool].chunks)
       /\ (thr[Writer].pc = "pmalloc_loop" /\ thr' # thr /\ NoRoom(Writer)
           /\ "__GFP_ATOMIC" \in thr[Writer].gfp)
            => (thr'[Writer] = Idle /\ last'.ret = NULL /\ areas' = areas
                /\ pools' = pools)]_vars

\* the part of C39 the code keeps: all of it for requests without
\* __GFP_NOFAIL
C39_PmallocTerminatesUnlessNofail ==
    [][/\ \A p \in OnePool, size \in SizesGp, gfp \in GfpFlags :
            (GpPmalloc(Writer, p, size, gfp) /\ pools[p].protected)
            => (thr'[Writer] = Idle /\ last'.ret = NULL)
       /\ (thr[Writer].pc = "pmalloc_loop" /\ thr'[Writer] = Idle)
            => \/ last'.ret = NULL
               \/ InsideChunk(pools'[thr[Writer].pool], last'.ret, last'.size)
       /\ (thr[Writer].pc = "pmalloc_loop" /\ thr'[Writer].pc = "pmalloc_loop"
           /\ "__GFP_NOFAIL" \notin thr[Writer].gfp)
            => Len(pools'[thr[Writer].pool].chunks) > Len(pools[thr[Writer].pool].chunks)
       /\ (thr[Writer].pc = "pmalloc_loop" /\ thr' # thr /\ NoRoom(Writer)
           /\ "__GFP_ATOMIC" \in thr[Writer].gfp
           /\ "__GFP_NOFAIL" \notin thr[Writer].gfp)
            => (thr'[Writer] = Idle /\ last'.ret = NULL /\ areas' = areas
                /\ pools' = pools)]_vars

\* l is a counter in the static write-rare section or in a chunk of a
\* write-rare pool
WrCounter(l) ==
    \/ __start_wr_after_init <= l /\ l + PTR_SIZE <= __end_wr_after_init
    \/ \E a \in DOMAIN areas :
          /\ VM_PMALLOC_WR_MASK \subseteq areas[a].flags
          /\ l \in AreaBytes(areas, a) /\ l + PTR_SIZE - 1 \in AreaBytes(areas, a)

\* the call added d to the long at l, touched nothing else and returned true
CountedBy(l, d) ==
    /\ last'.ret = TRUE
    /\ LoadPtr(mem', l) = ulong(LoadPtr(mem, l) + d)
    /\ \A a \in Addr \ (l .. (l + PTR_SIZE - 1)) : mem'[a] = mem[a]

\* C40: pratomic_long_inc(l) / pratomic_long_dec(l) on a target inside the
\* static write-rare section or inside a write-rare pool chunk remaps the page
\* that contains l, changes the value stored at l by exactly +1 / -1, touches
\* no other memory and returns true; on any other target it returns false and
\* changes nothing.
C40_CounterStep ==
    [][\A inc \in BOOLEAN, l \in CounterAddrs, page \in StalePages :
         PratomicLong(inc, l, TRUE, page)
         => IF WrCounter(l)
            THEN CountedBy(l, IF inc THEN 1 ELSE ULONG_MAX)
            ELSE last'.ret = FALSE /\ mem' = mem]_vars

\* the part of C40 the code keeps: counters in the static section, and the
\* refusal of targets that are not write rare
C40_StaticCounterStep ==
    [][\A inc \in BOOLEAN, l \in CounterAddrs, page \in StalePages :
         PratomicLong(inc, l, TRUE, page)
         => IF __is_wr_after_init(l, PTR_SIZE)
            THEN CountedBy(l, IF inc THEN 1 ELSE ULONG_MAX)
            ELSE WrCounter(l) \/ (last'.ret = FALSE /\ mem' = mem)]_vars

====
